---- MODULE Spec2Model ----
(***************************************************************************)
(* Model of the EcoShip quote pipeline (backend/services/quote_generator,  *)
(* backend/utils/carbon_calculator, backend/utils/eco_efficiency_scorer).  *)
(*                                                                         *)
(* Numbers.  Python floats are modelled by exact rationals in fixed units: *)
(*   weight  : tenths of a kilogram  (weight_kg = 50 is 5.0 kg)            *)
(*   money   : cents                                                       *)
(*   CO2     : grams (0.001 kg, the precision of round(x, 3))              *)
(*   factors : the integer numerator over the power of ten named in the    *)
(*             field (mult10 = 45 is 4.5, pct = 95 is 95.0 %)              *)
(* An unrounded value is a pair <<q, r>> standing for q + r/D, 0 <= r < D, *)
(* for a denominator D fixed by the computation, so that products stay     *)
(* exact and below 2^31.  round() is round-half-to-even on the exact       *)
(* value; a float that sits one rounding error off an exact tie (89.505,    *)
(* 22.75) may land on the neighbouring last digit.                          *)
(*                                                                         *)
(* Strings.  A city name is a record [text, cas, pad]: text is the         *)
(* lower-cased, trimmed content, cas the capitalisation it is written in   *)
(* and pad whether it carries surrounding blanks.  str.lower(), upper()    *)
(* and strip() act on cas and pad, so "Boston", "boston" and "Boston " are *)
(* three different strings.                                                *)
(***************************************************************************)
EXTENDS Integers, Sequences, FiniteSets, TLC

VARIABLES
    DEMO_ROUTES,       \* the lane catalog (module-level dict)
    service_catalog,   \* the service catalog (module-level dict UPS_SERVICES)
    parked,            \* the locals of a second request in progress, not running now
    eco_scores,        \* main.calculate_shipping: the tiers of eco_scores
    pc,                \* position inside generate_shipping_quotes
    origin_city,       \* request arguments
    destination_city,
    weight_kg,
    route_key,         \* lane chosen for the request
    route_data,
    svc_i,             \* position of the per-service loop
    quotes,            \* the quotes list being built
    result,            \* the returned dict (None until returned)
    error,             \* the exception that left the call ("" if none)
    f_quotes,          \* argument list of the pure-function harness
    f_weight,
    f_out,             \* what the call returned
    f_error,           \* the exception that left it ("" if none)
    f_pc,
    d_pc,                    \* position inside calculate_delivery_date
    d_service_key,           \* its arguments
    d_ship_date,
    d_effective_ship_date,   \* its locals
    d_business_days,
    d_current_date,          \* locals of add_business_days
    d_days_added,
    d_delivery_date          \* the date returned

vars == <<DEMO_ROUTES, service_catalog, parked, eco_scores, pc, origin_city, destination_city, weight_kg, route_key,
          route_data, svc_i, quotes, result, error,
          f_quotes, f_weight, f_out, f_error, f_pc,
          d_pc, d_service_key, d_ship_date, d_effective_ship_date, d_business_days,
          d_current_date, d_days_added, d_delivery_date>>

pipeVars == <<pc, origin_city, destination_city, weight_kg, route_key,
              route_data, svc_i, quotes, result, error, eco_scores>>

fnVars == <<f_quotes, f_weight, f_out, f_error, f_pc>>

dateVars == <<d_pc, d_service_key, d_ship_date, d_effective_ship_date, d_business_days,
              d_current_date, d_days_added, d_delivery_date>>

-----------------------------------------------------------------------------
(* Bounds of the model *)

\* longest quote list handed to the sort
MaxSortLen == 3
\* most quotes in a list handed to the scorer
MaxQuotes == 3
\* last ship date explored, in days from a Monday (two full weeks)
MaxShipDay == 13

-----------------------------------------------------------------------------
(* Strings *)

None == [none |-> TRUE]

Str(t, c, p) == [text |-> t, cas |-> c, pad |-> p]

EmptyStr == Str("", "lower", FALSE)

\* a string without letters has no capitalisation
Canon(s) == IF s.text = "" THEN [s EXCEPT !.cas = "lower"] ELSE s

Lower(s) == Canon([s EXCEPT !.cas = "lower"])

Upper(s) == Canon([s EXCEPT !.cas = "upper"])

Strip(s) == [s EXCEPT !.pad = FALSE]

\* Python truthiness of a str: non-empty
Truthy(s) == s # EmptyStr

StrLen0(s) == s.text = "" /\ ~s.pad

Title(t) == Str(t, "title", FALSE)

-----------------------------------------------------------------------------
(* Exact arithmetic on q + r/D *)

Norm(v, D) == <<v[1] + (v[2] \div D), v[2] % D>>

AddQ(a, b, D) == Norm(<<a[1] + b[1], a[2] + b[2]>>, D)

RECURSIVE MulQ(_, _, _)
MulQ(v, k, D) ==
    IF k <= 10 THEN Norm(<<v[1] * k, v[2] * k>>, D)
    ELSE AddQ(MulQ(MulQ(v, k \div 10, D), 10, D), MulQ(v, k % 10, D), D)

\* round(x) / round(x, n) on a value expressed in the unit of the last digit
RoundQ(v, D) ==
    IF 2 * v[2] > D THEN v[1] + 1
    ELSE IF 2 * v[2] < D THEN v[1]
    ELSE IF v[1] % 2 = 0 THEN v[1] ELSE v[1] + 1

Max2(a, b) == IF a >= b THEN a ELSE b

Min2(a, b) == IF a <= b THEN a ELSE b

RECURSIVE SumSeq(_)
SumSeq(s) == IF s = <<>> THEN 0 ELSE Head(s) + SumSeq(Tail(s))

-----------------------------------------------------------------------------
(* Reference catalogs (services/ups_services.py) *)

\* one (key, value) item of a Python dict; a dict is the sequence of its items
Entry(k, v) == [key |-> k, data |-> v]

Location(t, st) == [city |-> Title(t), state |-> st]

\* a DEMO_ROUTES value; base_cost_per_kg in cents; is_fallback is the value of
\* route_data.get("is_fallback", False)
Lane(o, ost, d, dst, air, ground, cost, complexity) ==
    [origin |-> Location(o, ost), destination |-> Location(d, dst),
     air_distance_km |-> air, ground_distance_km |-> ground,
     base_cost_per_kg |-> cost, route_complexity |-> complexity,
     is_fallback |-> FALSE]

\* a UPS_SERVICES value; name is the display name word by word,
\* base_cost_multiplier in tenths
Service(nm, eta, air, truck, mult, prio) ==
    [name |-> nm, eta_hours |-> eta, air_percentage |-> air,
     truck_percentage |-> truck, base_cost_multiplier |-> mult,
     priority_level |-> prio]

\* DEMO_ROUTES as shipped: insertion-ordered (key, lane) entries
RealRoutes == <<
    Entry("NYC_LA", Lane("new york", "NY", "los angeles", "CA",
          3944, 4501, 850, "complex")),
    Entry("SF_CHICAGO", Lane("san francisco", "CA", "chicago", "IL",
          2960, 3420, 725, "moderate")),
    Entry("MIAMI_SEATTLE", Lane("miami", "FL", "seattle", "WA",
          4308, 5145, 975, "complex")),
    Entry("BOSTON_DALLAS", Lane("boston", "MA", "dallas", "TX",
          2563, 3089, 680, "moderate")),
    Entry("DENVER_ATLANTA", Lane("denver", "CO", "atlanta", "GA",
          1770, 2092, 590, "simple")),
    Entry("PHOENIX_DETROIT", Lane("phoenix", "AZ", "detroit", "MI",
          2570, 2890, 710, "moderate")),
    Entry("PORTLAND_HOUSTON", Lane("portland", "OR", "houston", "TX",
          2890, 3420, 780, "moderate")),
    Entry("ORLANDO_MINNEAPOLIS", Lane("orlando", "FL", "minneapolis", "MN",
          1890, 2245, 620, "simple")),
    Entry("SALT_LAKE_CITY_PHILADELPHIA", Lane("salt lake city", "UT", "philadelphia", "PA",
          2890, 3380, 760, "moderate")),
    Entry("NASHVILLE_SAN_DIEGO", Lane("nashville", "TN", "san diego", "CA",
          2780, 3290, 740, "moderate")),
    Entry("CHARLOTTE_KANSAS_CITY", Lane("charlotte", "NC", "kansas city", "MO",
          1120, 1340, 480, "simple")),
    Entry("SACRAMENTO_MEMPHIS", Lane("sacramento", "CA", "memphis", "TN",
          2650, 3120, 720, "moderate")),
    Entry("BUFFALO_ALBUQUERQUE", Lane("buffalo", "NY", "albuquerque", "NM",
          2420, 2890, 690, "moderate")),
    Entry("RICHMOND_MILWAUKEE", Lane("richmond", "VA", "milwaukee", "WI",
          1180, 1420, 510, "simple")),
    Entry("TUCSON_COLUMBUS", Lane("tucson", "AZ", "columbus", "OH",
          2340, 2780, 670, "moderate"))
    >>

\* the six tiers, in dict order
UPS_SERVICES == <<
    Entry("UPS_NEXT_DAY_AIR_EARLY", Service(<<"UPS", "Next", "Day", "Air", "Early">>, 14, 95, 5, 45, 1)),
    Entry("UPS_NEXT_DAY_AIR", Service(<<"UPS", "Next", "Day", "Air">>, 16, 90, 10, 38, 2)),
    Entry("UPS_NEXT_DAY_AIR_SAVER", Service(<<"UPS", "Next", "Day", "Air", "Saver">>, 20, 85, 15, 32, 3)),
    Entry("UPS_2ND_DAY_AIR", Service(<<"UPS", "2nd", "Day", "Air">>, 40, 75, 25, 21, 4)),
    Entry("UPS_3_DAY_SELECT", Service(<<"UPS", "3-Day", "Select">>, 72, 40, 60, 16, 5)),
    Entry("UPS_GROUND", Service(<<"UPS", "Ground">>, 120, 5, 95, 10, 6))
    >>

\* a catalog without lanes
EmptyRoutes == <<>>

\* WEIGHT_CATEGORIES in dict order: max_weight_kg in tenths of a kg,
\* cost_adjustment in tenths
WEIGHT_CATEGORIES == <<
    Entry("envelope", [max_weight_kg |-> 5, cost_adjustment |-> 8]),
    Entry("small", [max_weight_kg |-> 20, cost_adjustment |-> 9]),
    Entry("medium", [max_weight_kg |-> 100, cost_adjustment |-> 10]),
    Entry("large", [max_weight_kg |-> 700, cost_adjustment |-> 12])
    >>

\* dict.get(key): the value of the first item with that key, else None
DictGet(dict, k) ==
    IF \E i \in 1..Len(dict) : dict[i].key = k
    THEN dict[CHOOSE i \in 1..Len(dict) : dict[i].key = k].data
    ELSE None

\* PricingFactors, hundredths
PREMIUM_MULTIPLIERS == <<
    Entry("UPS_NEXT_DAY_AIR_EARLY", 115),
    Entry("UPS_NEXT_DAY_AIR", 105),
    Entry("UPS_NEXT_DAY_AIR_SAVER", 100),
    Entry("UPS_2ND_DAY_AIR", 95),
    Entry("UPS_3_DAY_SELECT", 90),
    Entry("UPS_GROUND", 85)
    >>

\* PricingFactors, cents
MINIMUM_COSTS == <<
    Entry("UPS_NEXT_DAY_AIR_EARLY", 9500),
    Entry("UPS_NEXT_DAY_AIR", 7500),
    Entry("UPS_NEXT_DAY_AIR_SAVER", 6500),
    Entry("UPS_2ND_DAY_AIR", 3500),
    Entry("UPS_3_DAY_SELECT", 2500),
    Entry("UPS_GROUND", 1500)
    >>

SHORT_DISTANCE_MULTIPLIER == 8
MEDIUM_DISTANCE_MULTIPLIER == 10
LONG_DISTANCE_MULTIPLIER == 13
SHORT_DISTANCE_THRESHOLD == 1000
LONG_DISTANCE_THRESHOLD == 3000
\* 12.5 percent, in thousandths
FUEL_SURCHARGE_PERCENTAGE == 125
\* weight limit of _validate_quote_inputs, tenths of a kg
MAX_WEIGHT == 700

\* EmissionFactors: kg CO2e per tonne-km in hundredths, efficiency in hundredths
TRUCK_FACTOR == 15
AIR_FACTOR == 57
GROUND_EFFICIENCY_FACTOR == 85
EXPRESS_EFFICIENCY_FACTOR == 110
STANDARD_EFFICIENCY_FACTOR == 100

-----------------------------------------------------------------------------
(* Lane resolution (services/ups_services.py, services/quote_generator.py) *)

\* a route key: a catalog key, or the f-string "FALLBACK_{O}_{D}"
CatalogKey(k) == [prefix |-> "", name |-> k, o |-> EmptyStr, d |-> EmptyStr]

FallbackKey(o, d) ==
    [prefix |-> "FALLBACK_", name |-> "", o |-> Upper(o), d |-> Upper(d)]

StartsWithFallback(k) == k.prefix = "FALLBACK_"

\* DEMO_ROUTES.get(route_key)
RoutesGet(routes, k) ==
    IF k = None \/ k.prefix # "" THEN None ELSE DictGet(routes, k.name)

\* UPSDataLookup.find_route_by_cities: the first lane, in dict order, whose
\* origin and destination match ignoring case (blanks are not trimmed)
find_route_by_cities(routes, o, d) ==
    LET hit(i) == /\ Lower(routes[i].data.origin.city) = Lower(o)
                  /\ Lower(routes[i].data.destination.city) = Lower(d)
        hits == {i \in 1..Len(routes) : hit(i)}
    IN  IF hits = {} THEN None
        ELSE LET i == CHOOSE j \in hits : \A h \in hits : j <= h
             IN  <<CatalogKey(routes[i].key), routes[i].data>>

\* a reverse hit handed back as the catalog stores it
_keep_route_direction(rd) == rd

_swap_route_direction(rd) ==
    [rd EXCEPT !.origin = rd.destination, !.destination = rd.origin]

\* a catalog whose lane, found in the reverse direction, has been swapped in
\* its own dict
routes_swapped_in_place(routes, o, d) ==
    IF find_route_by_cities(routes, o, d) # None
       \/ find_route_by_cities(routes, d, o) = None
    THEN routes
    ELSE [i \in 1..Len(routes) |->
            IF CatalogKey(routes[i].key) = find_route_by_cities(routes, d, o)[1]
            THEN Entry(routes[i].key, _swap_route_direction(routes[i].data))
            ELSE routes[i]]

\* DEMO_ROUTES after route_lookup and get_fallback_route_data: a direct hit
\* is handed out as it is, _swap_route_direction assigns to
\* route_data.copy(), the fallback is a new dict; no catalog dict is written
routes_after_lookup(routes, o, d) == routes

\* a lookup that tries the requested direction only
route_lookup_direct_only(routes, o, d) ==
    LET direct == find_route_by_cities(routes, o, d)
    IN  IF direct # None THEN direct ELSE <<None, None>>

\* RouteManager.route_lookup: <<route_key, route_data>>, <<None, None>> if absent
route_lookup(routes, o, d) ==
    LET direct == find_route_by_cities(routes, o, d)
        reverse == find_route_by_cities(routes, d, o)
    IN  IF direct # None THEN direct
        ELSE IF reverse # None
             THEN <<reverse[1], _swap_route_direction(reverse[2])>>
             ELSE <<None, None>>

\* the exception value of a call that raised
Raise(e) == [raised |-> e]

IsRaise(x) == "raised" \in DOMAIN x

\* sum(r[field] for r in all_routes), one operator per field
SumAir(routes) == SumSeq([i \in 1..Len(routes) |-> routes[i].data.air_distance_km])

SumGround(routes) == SumSeq([i \in 1..Len(routes) |-> routes[i].data.ground_distance_km])

SumBaseCost(routes) == SumSeq([i \in 1..Len(routes) |-> routes[i].data.base_cost_per_kg])

\* round(total / n) for a Python float quotient
RoundDiv(total, n) == RoundQ(<<total \div n, total % n>>, n)

\* a fallback that answers for an empty catalog too, with zero means
fallback_for_any_catalog(routes, o, d) ==
    LET n == IF Len(routes) = 0 THEN 1 ELSE Len(routes)
    IN  [origin |-> [city |-> o, state |-> "XX"],
         destination |-> [city |-> d, state |-> "XX"],
         air_distance_km |-> RoundDiv(SumAir(routes), n),
         ground_distance_km |-> RoundDiv(SumGround(routes), n),
         base_cost_per_kg |-> RoundDiv(SumBaseCost(routes), n),
         route_complexity |-> "moderate",
         is_fallback |-> TRUE]

\* a fallback whose means are cut off at the whole number (int(avg))
fallback_truncated(routes, o, d) ==
    IF Len(routes) = 0 THEN Raise("ZeroDivisionError")
    ELSE [origin |-> [city |-> o, state |-> "XX"],
          destination |-> [city |-> d, state |-> "XX"],
          air_distance_km |-> SumAir(routes) \div Len(routes),
          ground_distance_km |-> SumGround(routes) \div Len(routes),
          base_cost_per_kg |-> SumBaseCost(routes) \div Len(routes),
          route_complexity |-> "moderate",
          is_fallback |-> TRUE]

\* RouteManager.get_fallback_route_data: catalog-wide means, rounded
get_fallback_route_data(routes, o, d) ==
    IF Len(routes) = 0 THEN Raise("ZeroDivisionError")
    ELSE [origin |-> [city |-> o, state |-> "XX"],
          destination |-> [city |-> d, state |-> "XX"],
          air_distance_km |-> RoundDiv(SumAir(routes), Len(routes)),
          ground_distance_km |-> RoundDiv(SumGround(routes), Len(routes)),
          base_cost_per_kg |-> RoundDiv(SumBaseCost(routes), Len(routes)),
          route_complexity |-> "moderate",
          is_fallback |-> TRUE]

-----------------------------------------------------------------------------
(* Cost (services/quote_generator.py ShippingCostCalculator) *)

\* a selection whose band limits are exclusive
weight_category_exclusive(w) ==
    LET fits == {i \in 1..Len(WEIGHT_CATEGORIES) :
                    w < WEIGHT_CATEGORIES[i].data.max_weight_kg}
    IN  IF fits = {} THEN "large"
        ELSE WEIGHT_CATEGORIES[CHOOSE i \in fits : \A j \in fits : i <= j].key

\* UPSDataLookup.get_weight_category_for_weight
get_weight_category_for_weight(w) ==
    LET fits == {i \in 1..Len(WEIGHT_CATEGORIES) :
                    w <= WEIGHT_CATEGORIES[i].data.max_weight_kg}
    IN  IF fits = {} THEN "large"
        ELSE WEIGHT_CATEGORIES[CHOOSE i \in fits : \A j \in fits : i <= j].key

\* zones whose thresholds belong to the short and to the long zone
distance_multiplier_inclusive(distance_km) ==
    IF distance_km <= SHORT_DISTANCE_THRESHOLD THEN SHORT_DISTANCE_MULTIPLIER
    ELSE IF distance_km >= LONG_DISTANCE_THRESHOLD THEN LONG_DISTANCE_MULTIPLIER
    ELSE MEDIUM_DISTANCE_MULTIPLIER

\* ShippingCostCalculator._get_distance_multiplier, tenths
_get_distance_multiplier(distance_km) ==
    IF distance_km < SHORT_DISTANCE_THRESHOLD THEN SHORT_DISTANCE_MULTIPLIER
    ELSE IF distance_km > LONG_DISTANCE_THRESHOLD THEN LONG_DISTANCE_MULTIPLIER
    ELSE MEDIUM_DISTANCE_MULTIPLIER

\* dict.get(key, default)
DictGetOr(dict, k, default) ==
    IF \E i \in 1..Len(dict) : dict[i].key = k THEN DictGet(dict, k) ELSE default

\* cents are counted over 10 (weight) * 10 (service) * 10 (distance) * 10
\* (category) * 8 (surcharge: 1125/1000 = 9/8) * 100 (premium)
CostDen == 8000000

\* the unrounded final_cost before the minimum is applied, cents
RawCost(rd, w, sd, service_key) ==
    LET distance_km == Max2(rd.air_distance_km, rd.ground_distance_km)
        base == MulQ(MulQ(MulQ(<<0, 1>>, w, CostDen), rd.base_cost_per_kg, CostDen),
                     sd.base_cost_multiplier, CostDen)
        zoned == MulQ(base, _get_distance_multiplier(distance_km), CostDen)
        category == DictGet(WEIGHT_CATEGORIES, get_weight_category_for_weight(w))
        adjusted == MulQ(zoned, category.cost_adjustment, CostDen)
        fuelled == MulQ(adjusted, (1000 + FUEL_SURCHARGE_PERCENTAGE) \div 125, CostDen)
    IN  MulQ(fuelled, DictGetOr(PREMIUM_MULTIPLIERS, service_key, 100), CostDen)

\* a cost with no minimum applied
shipping_cost_without_minimum(rd, w, sd, service_key) ==
    RoundQ(RawCost(rd, w, sd, service_key), CostDen)

\* ShippingCostCalculator.calculate_shipping_cost, cents
calculate_shipping_cost(rd, w, sd, service_key) ==
    LET final_cost == RawCost(rd, w, sd, service_key)
        minimum_cost == DictGetOr(MINIMUM_COSTS, service_key, 1500)
    IN  IF final_cost[1] < minimum_cost THEN minimum_cost
        ELSE RoundQ(final_cost, CostDen)

-----------------------------------------------------------------------------
(* Carbon (utils/carbon_calculator.py CarbonCalculator) *)

\* str.lower() of one word of a display name
LowerWord(wd) ==
    CASE wd = "UPS" -> "ups" [] wd = "Next" -> "next" [] wd = "Day" -> "day"
      [] wd = "Air" -> "air" [] wd = "Early" -> "early" [] wd = "Saver" -> "saver"
      [] wd = "2nd" -> "2nd" [] wd = "3-Day" -> "3-day" [] wd = "Select" -> "select"
      [] wd = "Ground" -> "ground" [] OTHER -> wd

LowerName(nm) == [i \in 1..Len(nm) |-> LowerWord(nm[i])]

\* pattern in name, on whole words
Contains(nm, pat) ==
    \E i \in 0..(Len(nm) - Len(pat)) : \A j \in 1..Len(pat) : nm[i + j] = pat[j]

_get_service_efficiency_factor(sd) ==
    LET service_name == LowerName(sd.name)
    IN  IF Contains(service_name, <<"ground">>) THEN GROUND_EFFICIENCY_FACTOR
        ELSE IF \/ Contains(service_name, <<"next", "day">>)
                \/ Contains(service_name, <<"early">>)
                \/ Contains(service_name, <<"express">>)
             THEN EXPRESS_EFFICIENCY_FACTOR
             ELSE STANDARD_EFFICIENCY_FACTOR

\* _validate_carbon_inputs: the error raised, "" if none
_validate_carbon_inputs(k, w, sd) ==
    IF k = None THEN "ValueError"
    ELSE IF w <= 0 \/ w > MAX_WEIGHT THEN "ValueError"
    ELSE IF ~({"name", "air_percentage", "truck_percentage"} \subseteq DOMAIN sd)
    THEN "ValueError"
    ELSE ""

\* grams are counted over 10^7 times the divisor of the distance
CarbonBase == 10000000

\* the distances read from the catalog alone, with no branch for FALLBACK_ keys
CarbonDistancesCatalogOnly(routes, k) ==
    LET rd == RoutesGet(routes, k)
    IN  IF rd # None
        THEN [air |-> rd.air_distance_km, ground |-> rd.ground_distance_km, n |-> 1]
        ELSE Raise("ValueError")

\* the distances the carbon computation reads, air / n and ground / n: the
\* cataloged lane's, or for a FALLBACK_ key the unrounded catalog means
CarbonDistances(routes, k) ==
    LET rd == RoutesGet(routes, k)
    IN  IF rd # None
        THEN [air |-> rd.air_distance_km, ground |-> rd.ground_distance_km, n |-> 1]
        ELSE IF StartsWithFallback(k)
             THEN IF Len(routes) = 0 THEN Raise("ZeroDivisionError")
                  ELSE [air |-> SumAir(routes), ground |-> SumGround(routes),
                        n |-> Len(routes)]
             ELSE Raise("ValueError")

\* a breakdown whose total leaves the efficiency factor out of the truck part
carbon_footprint_unscaled_total(routes, k, w, sd) ==
    IF _validate_carbon_inputs(k, w, sd) # "" THEN Raise(_validate_carbon_inputs(k, w, sd))
    ELSE LET dist == CarbonDistances(routes, k)
         IN  IF IsRaise(dist) THEN dist
             ELSE LET D == CarbonBase * dist.n
                      air_co2 == MulQ(MulQ(MulQ(MulQ(<<0, 1>>, dist.air, D),
                                     sd.air_percentage, D), w, D), AIR_FACTOR * 100, D)
                      truck_tkm == MulQ(MulQ(MulQ(MulQ(<<0, 1>>, dist.ground, D),
                                     sd.truck_percentage, D), w, D), TRUCK_FACTOR, D)
                      truck_co2 == MulQ(truck_tkm, _get_service_efficiency_factor(sd), D)
                      total_co2 == AddQ(air_co2, MulQ(truck_tkm, 100, D), D)
                  IN  [total_co2_kg |-> RoundQ(total_co2, D),
                       air_transport_co2_kg |-> RoundQ(air_co2, D),
                       truck_transport_co2_kg |-> RoundQ(truck_co2, D)]

\* a breakdown that applies the efficiency factor to the air part as well
carbon_footprint_scaled_air(routes, k, w, sd) ==
    IF _validate_carbon_inputs(k, w, sd) # "" THEN Raise(_validate_carbon_inputs(k, w, sd))
    ELSE LET dist == CarbonDistances(routes, k)
         IN  IF IsRaise(dist) THEN dist
             ELSE LET D == CarbonBase * dist.n
                      air_co2 == MulQ(MulQ(MulQ(MulQ(MulQ(<<0, 1>>, dist.air, D),
                                     sd.air_percentage, D), w, D), AIR_FACTOR, D),
                                     _get_service_efficiency_factor(sd), D)
                      truck_co2 == MulQ(MulQ(MulQ(MulQ(MulQ(<<0, 1>>, dist.ground, D),
                                     sd.truck_percentage, D), w, D), TRUCK_FACTOR, D),
                                     _get_service_efficiency_factor(sd), D)
                      total_co2 == AddQ(air_co2, truck_co2, D)
                  IN  [total_co2_kg |-> RoundQ(total_co2, D),
                       air_transport_co2_kg |-> RoundQ(air_co2, D),
                       truck_transport_co2_kg |-> RoundQ(truck_co2, D)]

\* CarbonCalculator.calculate_carbon_footprint: the CarbonBreakdown in grams,
\* or the exception
calculate_carbon_footprint(routes, k, w, sd) ==
    IF _validate_carbon_inputs(k, w, sd) # "" THEN Raise(_validate_carbon_inputs(k, w, sd))
    ELSE LET dist == CarbonDistances(routes, k)
         IN  IF IsRaise(dist) THEN dist
             ELSE LET D == CarbonBase * dist.n
                      air_co2 == MulQ(MulQ(MulQ(MulQ(<<0, 1>>, dist.air, D),
                                     sd.air_percentage, D), w, D), AIR_FACTOR * 100, D)
                      truck_co2 == MulQ(MulQ(MulQ(MulQ(MulQ(<<0, 1>>, dist.ground, D),
                                     sd.truck_percentage, D), w, D), TRUCK_FACTOR, D),
                                     _get_service_efficiency_factor(sd), D)
                      total_co2 == AddQ(air_co2, truck_co2, D)
                  IN  [total_co2_kg |-> RoundQ(total_co2, D),
                       air_transport_co2_kg |-> RoundQ(air_co2, D),
                       truck_transport_co2_kg |-> RoundQ(truck_co2, D)]

-----------------------------------------------------------------------------
(* Quote generation (services/quote_generator.py QuoteGenerator) *)

\* a validation that never trims blanks before comparing the two cities
validate_untrimmed(o, d, w) ==
    IF ~Truthy(o) \/ StrLen0(Strip(o))
    THEN "Origin city must be a non-empty string"
    ELSE IF ~Truthy(d) \/ StrLen0(Strip(d))
    THEN "Destination city must be a non-empty string"
    ELSE IF Lower(o) = Lower(d)
    THEN "Origin and destination cities cannot be the same"
    ELSE IF w <= 0
    THEN "Weight must be a positive number"
    ELSE IF w > MAX_WEIGHT
    THEN "Weight cannot exceed 70kg for standard UPS services"
    ELSE ""

\* QuoteGenerator._validate_quote_inputs: the message of the ValueError
\* raised, "" if the inputs pass
_validate_quote_inputs(o, d, w) ==
    IF ~Truthy(o) \/ StrLen0(Strip(o))
    THEN "Origin city must be a non-empty string"
    ELSE IF ~Truthy(d) \/ StrLen0(Strip(d))
    THEN "Destination city must be a non-empty string"
    ELSE IF Lower(Strip(o)) = Lower(Strip(d))
    THEN "Origin and destination cities cannot be the same"
    ELSE IF w <= 0
    THEN "Weight must be a positive number"
    ELSE IF w > MAX_WEIGHT
    THEN "Weight cannot exceed 70kg for standard UPS services"
    ELSE ""

\* the quote dict built in the loop body
Quote(service_key, sd, cost, carbon) ==
    [service_key |-> service_key, service_name |-> sd.name,
     eta_hours |-> sd.eta_hours, cost_usd |-> cost,
     carbon_breakdown |-> carbon, priority_level |-> sd.priority_level,
     eco_badge |-> "", carbon_savings_percentage |-> 0]

\* calculate_shipping_cost reads service_data['name'] and
\* service_data["base_cost_multiplier"]: the KeyError of a missing one
shipping_cost_error(sd) ==
    IF {"name", "base_cost_multiplier"} \subseteq DOMAIN sd THEN "" ELSE "KeyError"

\* a loop body that prices a service at its minimum when its cost cannot be
\* computed
ServiceQuoteAtMinimum(routes, rk, rd, w, e) ==
    LET carbon == calculate_carbon_footprint(routes, rk, w, e.data)
    IN  IF IsRaise(carbon) THEN carbon
        ELSE IF shipping_cost_error(e.data) # ""
        THEN Quote(e.key, e.data, DictGetOr(MINIMUM_COSTS, e.key, 1500), carbon)
        ELSE Quote(e.key, e.data, calculate_shipping_cost(rd, w, e.data, e.key), carbon)

\* one pass of the loop body for a service: the quote, or the exception the
\* try block caught
ServiceQuote(routes, rk, rd, w, e) ==
    LET carbon == calculate_carbon_footprint(routes, rk, w, e.data)
    IN  IF shipping_cost_error(e.data) # "" THEN Raise(shipping_cost_error(e.data))
        ELSE IF IsRaise(carbon) THEN carbon
        ELSE Quote(e.key, e.data, calculate_shipping_cost(rd, w, e.data, e.key), carbon)

\* a key that ranks cost before CO2
SortKeyCostFirst(q) == <<q.eta_hours, q.cost_usd, q.carbon_breakdown.total_co2_kg>>

\* a sort key that puts the footprint before the transit time
SortKeyCarbonFirst(q) == <<q.carbon_breakdown.total_co2_kg, q.eta_hours, q.cost_usd>>

\* the sort key of a quote
SortKey(q) == <<q.eta_hours, q.carbon_breakdown.total_co2_kg, q.cost_usd>>

\* tuple comparison a < b
TupleLess(a, b) ==
    \/ a[1] < b[1]
    \/ a[1] = b[1] /\ a[2] < b[2]
    \/ a[1] = b[1] /\ a[2] = b[2] /\ a[3] < b[3]

\* insert q after the elements that do not compare greater (stable)
RECURSIVE InsertSorted(_, _)
InsertSorted(q, sorted) ==
    IF sorted = <<>> THEN <<q>>
    ELSE IF TupleLess(SortKey(q), SortKey(Head(sorted))) THEN <<q>> \o sorted
    ELSE <<Head(sorted)>> \o InsertSorted(q, Tail(sorted))

\* quotes.sort(key=(eta_hours, total_co2_kg, cost_usd)): list.sort is stable
RECURSIVE SortQuotes(_)
SortQuotes(qs) ==
    IF qs = <<>> THEN <<>>
    ELSE InsertSorted(qs[Len(qs)], SortQuotes(SubSeq(qs, 1, Len(qs) - 1)))

\* min(values) / max(values)
MinOf(f) == CHOOSE x \in {f[i] : i \in DOMAIN f} : \A i \in DOMAIN f : x <= f[i]

MaxOf(f) == CHOOSE x \in {f[i] : i \in DOMAIN f} : \A i \in DOMAIN f : x >= f[i]

\* the first element whatever its key
FirstOfList(qs, f) == qs[1]

\* min(quotes, key=...): the first element with the least key
FirstMin(qs, f) ==
    qs[CHOOSE i \in DOMAIN qs :
          /\ f[i] = MinOf(f)
          /\ \A j \in DOMAIN qs : f[j] = MinOf(f) => i <= j]

Costs(qs) == [i \in DOMAIN qs |-> qs[i].cost_usd]

CarbonValues(qs) == [i \in DOMAIN qs |-> qs[i].carbon_breakdown.total_co2_kg]

\* CarbonComparison._assign_eco_badge, avg_carbon = total / n
_assign_eco_badge(carbon_kg, min_carbon, max_carbon, total, n) ==
    IF carbon_kg = min_carbon THEN "most_eco_friendly"
    ELSE IF carbon_kg * n <= total THEN "eco_friendly"
    ELSE IF carbon_kg * 10 >= max_carbon * 9 THEN "high_emission"
    ELSE "standard"

\* _add_eco_badges_to_quotes over the result of carbon_comparison, which
\* recomputes the carbon of every service for the same key and weight; the
\* savings percentage is in tenths of a percent
_add_eco_badges_to_quotes(qs) ==
    LET values == CarbonValues(qs)
        min_carbon == MinOf(values)
        max_carbon == MaxOf(values)
    IN  [i \in DOMAIN qs |->
            [qs[i] EXCEPT
                !.eco_badge = _assign_eco_badge(values[i], min_carbon, max_carbon,
                                                SumSeq(values), Len(qs)),
                !.carbon_savings_percentage =
                    IF max_carbon > 0
                    THEN RoundDiv((max_carbon - values[i]) * 1000, max_carbon)
                    ELSE 0]]

\* the dict returned by generate_shipping_quotes for the sorted quotes
Result(qs, rk, rd, o, d, w) ==
    [quotes |-> qs,
     route_info |->
        [route_key |-> rk, origin_city |-> o, destination_city |-> d,
         total_distance_km |-> Max2(rd.air_distance_km, rd.ground_distance_km),
         air_distance_km |-> rd.air_distance_km,
         ground_distance_km |-> rd.ground_distance_km,
         route_complexity |-> rd.route_complexity,
         is_fallback |-> rd.is_fallback],
     summary |->
        [total_quotes |-> Len(qs),
         price_range_usd |-> [min |-> MinOf(Costs(qs)), max |-> MaxOf(Costs(qs))],
         carbon_range_kg |-> [min |-> MinOf(CarbonValues(qs)),
                              max |-> MaxOf(CarbonValues(qs))],
         fastest_service |-> qs[1].service_name,
         cheapest_service |-> FirstMin(qs, Costs(qs)).service_name,
         most_eco_friendly |-> FirstMin(qs, CarbonValues(qs)).service_name],
     request_metadata |-> [origin_city |-> o, destination_city |-> d, weight_kg |-> w]]

-----------------------------------------------------------------------------
(* Eco-efficiency scoring (utils/eco_efficiency_scorer.py)                  *)
(* Scores are exact fractions [num, den] in lowest terms with den > 0.      *)

RECURSIVE GCD(_, _)
GCD(a, b) == IF b = 0 THEN a ELSE GCD(b, a % b)

Abs(n) == IF n < 0 THEN -n ELSE n

\* n / d for d > 0, in lowest terms
Frac(n, d) == LET g == GCD(Abs(n), d) IN [num |-> n \div g, den |-> d \div g]

FromInt(n) == [num |-> n, den |-> 1]

\* sums and differences over the least common denominator, products with
\* the common factors taken out first: the same values, smaller intermediates
FracAdd(a, b) ==
    LET g == GCD(a.den, b.den)
    IN  Frac(a.num * (b.den \div g) + b.num * (a.den \div g), (a.den \div g) * b.den)

FracSub(a, b) ==
    LET g == GCD(a.den, b.den)
    IN  Frac(a.num * (b.den \div g) - b.num * (a.den \div g), (a.den \div g) * b.den)

FracMul(a, b) ==
    LET g == GCD(Abs(a.num), b.den)
        h == GCD(Abs(b.num), a.den)
    IN  Frac((a.num \div g) * (b.num \div h), (a.den \div h) * (b.den \div g))

\* a / b; Python raises ZeroDivisionError for b = 0
FracDiv(a, b) ==
    IF b.num = 0 THEN Raise("ZeroDivisionError")
    ELSE LET g == GCD(Abs(a.num), Abs(b.num))
             h == GCD(a.den, b.den)
             n == (a.num \div g) * (b.den \div h)
             d == (a.den \div h) * (Abs(b.num) \div g)
         IN  IF b.num > 0 THEN Frac(n, d) ELSE Frac(-n, d)

\* p/q <= r/s for q, s > 0, by integer parts and then the reciprocals of the
\* remainders (no products)
RECURSIVE RatioLeq(_, _, _, _)
RatioLeq(p, q, r, s) ==
    IF p \div q # r \div s THEN p \div q < r \div s
    ELSE IF p % q = 0 THEN TRUE
    ELSE IF r % s = 0 THEN FALSE
    ELSE RatioLeq(s, r % s, q, p % q)

FracLeq(a, b) == RatioLeq(a.num, a.den, b.num, b.den)

FracMin2(a, b) == IF FracLeq(a, b) THEN a ELSE b

FracMax2(a, b) == IF FracLeq(b, a) THEN a ELSE b

\* min(values) / max(values) of a non-empty list of fractions
FracMin(f) == CHOOSE x \in {f[i] : i \in DOMAIN f} : \A i \in DOMAIN f : FracLeq(x, f[i])

FracMax(f) == CHOOSE x \in {f[i] : i \in DOMAIN f} : \A i \in DOMAIN f : FracLeq(f[i], x)

\* round(x, n) in units of 1/scale
FracRound(x, scale) == RoundDiv(x.num * scale, x.den)

\* ScoringWeights, hundredths
cost_effectiveness == 70
environmental_impact == 30

\* EcoEfficiencyScorer.TIER_RANGES in dict order
TIER_RANGES == <<
    Entry("excellent", <<21, 25>>),
    Entry("very_good", <<17, 20>>),
    Entry("good", <<13, 16>>),
    Entry("fair", <<9, 12>>),
    Entry("poor", <<5, 8>>),
    Entry("very_poor", <<0, 4>>)
    >>

\* a normalisation that divides by max - min whatever its value
normalize_unguarded(values) ==
    IF values = <<>> THEN <<>>
    ELSE [i \in DOMAIN values |->
            FracDiv(FracSub(FracMax(values), values[i]),
                    FracSub(FracMax(values), FracMin(values)))]

\* a normalisation that is not inverted: the dearest quote scores 1
normalize_cost_uninverted(cost_per_kg_values) ==
    IF cost_per_kg_values = <<>> THEN <<>>
    ELSE LET min_cost == FracMin(cost_per_kg_values)
             max_cost == FracMax(cost_per_kg_values)
         IN  IF max_cost = min_cost
             THEN [i \in DOMAIN cost_per_kg_values |-> FromInt(1)]
             ELSE [i \in DOMAIN cost_per_kg_values |->
                      FracDiv(FracSub(cost_per_kg_values[i], min_cost),
                              FracSub(max_cost, min_cost))]

\* EcoEfficiencyScorer._normalize_cost_scores
_normalize_cost_scores(cost_per_kg_values) ==
    IF cost_per_kg_values = <<>> THEN <<>>
    ELSE LET min_cost == FracMin(cost_per_kg_values)
             max_cost == FracMax(cost_per_kg_values)
         IN  IF max_cost = min_cost
             THEN [i \in DOMAIN cost_per_kg_values |-> FromInt(1)]
             ELSE [i \in DOMAIN cost_per_kg_values |->
                      FracDiv(FracSub(max_cost, cost_per_kg_values[i]),
                              FracSub(max_cost, min_cost))]

_normalize_environmental_scores(carbon_per_kg_values) ==
    IF carbon_per_kg_values = <<>> THEN <<>>
    ELSE LET min_carbon == FracMin(carbon_per_kg_values)
             max_carbon == FracMax(carbon_per_kg_values)
         IN  IF max_carbon = min_carbon
             THEN [i \in DOMAIN carbon_per_kg_values |-> FromInt(1)]
             ELSE [i \in DOMAIN carbon_per_kg_values |->
                      FracDiv(FracSub(max_carbon, carbon_per_kg_values[i]),
                              FracSub(max_carbon, min_carbon))]

\* the if / elif chain of _apply_business_logic: the adjustment in hundredths
adjustment(service_name) ==
    IF Contains(service_name, <<"Next", "Day", "Air", "Early">>) THEN -15
    ELSE IF /\ Contains(service_name, <<"Next", "Day", "Air">>)
            /\ ~Contains(service_name, <<"Early">>) THEN -8
    ELSE IF Contains(service_name, <<"Next", "Day", "Air", "Saver">>) THEN 25
    ELSE IF Contains(service_name, <<"2nd", "Day", "Air">>) THEN 28
    ELSE IF Contains(service_name, <<"3-Day", "Select">>) THEN 30
    ELSE IF Contains(service_name, <<"Ground">>) THEN 32
    ELSE 0

\* _apply_business_logic: base_score
BaseScore(cost_score, env_score) ==
    FracAdd(FracMul(cost_score, Frac(cost_effectiveness, 100)),
            FracMul(env_score, Frac(environmental_impact, 100)))

\* the weighted, adjusted and scaled score with no clamp to [0, 25]
apply_business_logic_unclamped(quote, cost_score, env_score) ==
    FracMul(FracMul(BaseScore(cost_score, env_score),
                    Frac(100 + adjustment(quote.service_name), 100)),
            FromInt(25))

\* the score on the range 0 to 30 of an earlier version ("changed from 0-30")
apply_business_logic_thirty(quote, cost_score, env_score) ==
    LET base_score == BaseScore(cost_score, env_score)
        adjusted_score == FracMul(base_score,
                                  Frac(100 + adjustment(quote.service_name), 100))
    IN  FracMax2(FromInt(0), FracMin2(FromInt(30), FracMul(adjusted_score, FromInt(30))))

\* EcoEfficiencyScorer._apply_business_logic: final_score
_apply_business_logic(quote, cost_score, env_score) ==
    LET base_score == BaseScore(cost_score, env_score)
        adjusted_score == FracMul(base_score,
                                  Frac(100 + adjustment(quote.service_name), 100))
    IN  FracMax2(FromInt(0), FracMin2(FromInt(25), FracMul(adjusted_score, FromInt(25))))

\* EcoEfficiencyScorer._determine_tier: the first band, in dict order, that
\* holds the score
_determine_tier(score) ==
    LET holds(i) == /\ FracLeq(FromInt(TIER_RANGES[i].data[1]), score)
                    /\ FracLeq(score, FromInt(TIER_RANGES[i].data[2]))
        hits == {i \in DOMAIN TIER_RANGES : holds(i)}
    IN  IF hits = {} THEN "unranked"
        ELSE TIER_RANGES[CHOOSE i \in hits : \A j \in hits : i <= j].key

\* Naturals beyond the machine integers, for the products of a score left
\* unformed: 8 digits in base 1000, least significant first
\* n >= 0 as such a number
Wide(n) ==
    [i \in 1..8 |->
        IF i = 1 THEN n % 1000
        ELSE IF i = 2 THEN (n \div 1000) % 1000
        ELSE IF i = 3 THEN (n \div 1000000) % 1000
        ELSE IF i = 4 THEN n \div 1000000000
        ELSE 0]

\* the digits of a sequence of digit sums, carries taken forward
RECURSIVE Carried(_, _, _)
Carried(raw, i, carry) ==
    IF i > Len(raw) THEN <<>>
    ELSE <<(raw[i] + carry) % 1000>>
             \o Carried(raw, i + 1, (raw[i] + carry) \div 1000)

\* x * k for 0 <= k <= 2000000
WideTimes(x, k) == Carried([i \in DOMAIN x |-> x[i] * k], 1, 0)

WidePlus(x, y) == Carried([i \in DOMAIN x |-> x[i] + y[i]], 1, 0)

\* x <= y on the digits up to the i-th
RECURSIVE WideLeqFrom(_, _, _)
WideLeqFrom(x, y, i) ==
    IF i = 0 THEN TRUE
    ELSE IF x[i] # y[i] THEN x[i] < y[i]
    ELSE WideLeqFrom(x, y, i - 1)

\* _determine_tier(final_score) for final_score = max(0, min(25, base_score *
\* (1 + adjustment) * 25)) and base_score = cost_score * 0.70 + env_score *
\* 0.30, with the products left unformed for scores whose sum does not fit
\* the integers: with cost_score = a/b and env_score = p/q, the unclamped
\* score is (100 + adjustment) * (70 a q + 30 p b) / (400 b q), and
\* k <= final_score and final_score <= k are decided on the cross products
TierOfScaled(cost_score, env_score, service_name) ==
    LET factor == 100 + adjustment(service_name)
        scaled ==
            WideTimes(
                WidePlus(
                    WideTimes(WideTimes(Wide(cost_score.num), env_score.den),
                              cost_effectiveness),
                    WideTimes(WideTimes(Wide(env_score.num), cost_score.den),
                              environmental_impact)),
                factor)
        level(k) == WideTimes(WideTimes(Wide(cost_score.den), env_score.den), 400 * k)
        atMost(k) == IF k >= 25 THEN TRUE
                     ELSE IF k < 0 THEN FALSE
                     ELSE WideLeqFrom(scaled, level(k), 8)
        atLeast(k) == IF k <= 0 THEN TRUE
                      ELSE IF k > 25 THEN FALSE
                      ELSE WideLeqFrom(level(k), scaled, 8)
        holds(i) == atLeast(TIER_RANGES[i].data[1]) /\ atMost(TIER_RANGES[i].data[2])
        hits == {i \in DOMAIN TIER_RANGES : holds(i)}
    IN  IF hits = {} THEN "unranked"
        ELSE TIER_RANGES[CHOOSE i \in hits : \A j \in hits : i <= j].key

\* the per-kg metrics extracted by calculate_scores (weight in tenths of a kg)
CostPerKg(qs, weight) == [i \in DOMAIN qs |-> Frac(qs[i].cost_usd * 10, weight)]

CarbonPerKg(qs, weight) ==
    [i \in DOMAIN qs |-> Frac(qs[i].carbon_breakdown.total_co2_kg * 10, weight)]

\* the exception that leaves calculate_scores, "" if it returns: the two
\* guards, or a division by zero in a normalisation
calculate_scores_error(qs, weight) ==
    IF qs = <<>> THEN "No quotes provided for scoring"
    ELSE IF weight <= 0 THEN "Package weight must be positive"
    ELSE LET cost_scores == _normalize_cost_scores(CostPerKg(qs, weight))
             environmental_scores ==
                 _normalize_environmental_scores(CarbonPerKg(qs, weight))
         IN  IF \E i \in DOMAIN qs :
                    IsRaise(cost_scores[i]) \/ IsRaise(environmental_scores[i])
             THEN "ZeroDivisionError"
             ELSE ""

\* the local weighted_score of every quote, before rounding
WeightedScores(qs, weight) ==
    LET cost_scores == _normalize_cost_scores(CostPerKg(qs, weight))
        environmental_scores == _normalize_environmental_scores(CarbonPerKg(qs, weight))
    IN  [i \in DOMAIN qs |->
            _apply_business_logic(qs[i], cost_scores[i], environmental_scores[i])]

\* the tier of every quote of calculate_scores, by TierOfScaled
TiersOfScores(qs, weight) ==
    LET cost_scores == _normalize_cost_scores(CostPerKg(qs, weight))
        environmental_scores == _normalize_environmental_scores(CarbonPerKg(qs, weight))
    IN  [i \in DOMAIN qs |->
            TierOfScaled(cost_scores[i], environmental_scores[i],
                         qs[i].service_name)]

\* the adjustment taken from quote_index ("Index of quote in sorted list (by
\* priority)") instead of the service name
PositionAdjustment(quote_index) ==
    IF quote_index = 1 THEN -15
    ELSE IF quote_index = 2 THEN -8
    ELSE IF quote_index = 3 THEN 25
    ELSE IF quote_index = 4 THEN 28
    ELSE IF quote_index = 5 THEN 30
    ELSE 32

\* a calculate_scores whose business logic goes by the position of the quote
calculate_scores_by_position(qs, weight) ==
    LET cost_scores == _normalize_cost_scores(CostPerKg(qs, weight))
        environmental_scores == _normalize_environmental_scores(CarbonPerKg(qs, weight))
        weighted == [i \in DOMAIN qs |->
                        FracMax2(FromInt(0), FracMin2(FromInt(25),
                            FracMul(FracMul(BaseScore(cost_scores[i], environmental_scores[i]),
                                            Frac(100 + PositionAdjustment(i), 100)),
                                    FromInt(25))))]
    IN  [i \in DOMAIN qs |->
            [points |-> FracRound(weighted[i], 10),
             cost_effectiveness_score |-> FracRound(cost_scores[i], 100),
             environmental_score |-> FracRound(environmental_scores[i], 100),
             cost_per_kg |-> CostPerKg(qs, weight)[i],
             carbon_per_kg |-> CarbonPerKg(qs, weight)[i],
             tier |-> _determine_tier(weighted[i])]]

\* EcoEfficiencyScorer.calculate_scores when it returns: the list of
\* EcoEfficiencyScore (points in tenths, component scores in hundredths; the
\* explanation text is left out)
calculate_scores(qs, weight) ==
    LET cost_scores == _normalize_cost_scores(CostPerKg(qs, weight))
        environmental_scores == _normalize_environmental_scores(CarbonPerKg(qs, weight))
        weighted == WeightedScores(qs, weight)
    IN  [i \in DOMAIN qs |->
            [points |-> FracRound(weighted[i], 10),
             cost_effectiveness_score |-> FracRound(cost_scores[i], 100),
             environmental_score |-> FracRound(environmental_scores[i], 100),
             cost_per_kg |-> CostPerKg(qs, weight)[i],
             carbon_per_kg |-> CarbonPerKg(qs, weight)[i],
             tier |-> _determine_tier(weighted[i])]]

-----------------------------------------------------------------------------
(* Delivery dates (utils/delivery_calculator.py)                            *)
(* A date is a number of days; day 0 is a Monday.                           *)

\* datetime.weekday(): Monday = 0 ... Sunday = 6
weekday(date) == date % 7

\* a week in which Saturday counts as a business day
is_business_day_six(date) == weekday(date) < 6

\* BusinessDayCalculator.is_business_day
is_business_day(date) == weekday(date) < 5

\* a loop body that forgets to count the day
days_added_kept(days_added, date) == days_added

\* the body of the while loop of add_business_days, after current_date has
\* moved to date: the new days_added
days_added_after(days_added, date) ==
    IF is_business_day(date) THEN days_added + 1 ELSE days_added

\* the while loop of add_business_days from a given loop state
RECURSIVE AddBusinessDaysFrom(_, _, _)
AddBusinessDaysFrom(current_date, days_added, business_days) ==
    IF days_added < business_days
    THEN AddBusinessDaysFrom(current_date + 1,
                             days_added_after(days_added, current_date + 1),
                             business_days)
    ELSE current_date

\* BusinessDayCalculator.add_business_days
add_business_days(start_date, business_days) ==
    AddBusinessDaysFrom(start_date, 0, business_days)

\* a weekend date moved by 6 - weekday days
ensure_business_day_short(date) ==
    IF is_business_day(date) THEN date ELSE date + (6 - weekday(date))

\* BusinessDayCalculator.ensure_business_day
ensure_business_day(date) ==
    IF is_business_day(date) THEN date ELSE date + (7 - weekday(date))

\* a table that gives Ground the five days of its comment ("can be 3-5")
business_days_ground_five == <<
    Entry("UPS_NEXT_DAY_AIR_EARLY", 1),
    Entry("UPS_NEXT_DAY_AIR", 1),
    Entry("UPS_NEXT_DAY_AIR_SAVER", 1),
    Entry("UPS_2ND_DAY_AIR", 2),
    Entry("UPS_3_DAY_SELECT", 3),
    Entry("UPS_GROUND", 5)
    >>

\* DeliveryDateCalculator.SERVICE_BUSINESS_DAYS in dict order
SERVICE_BUSINESS_DAYS == <<
    Entry("UPS_NEXT_DAY_AIR_EARLY", 1),
    Entry("UPS_NEXT_DAY_AIR", 1),
    Entry("UPS_NEXT_DAY_AIR_SAVER", 1),
    Entry("UPS_2ND_DAY_AIR", 2),
    Entry("UPS_3_DAY_SELECT", 3),
    Entry("UPS_GROUND", 3)
    >>

\* DeliveryDateCalculator.calculate_delivery_date: delivery_date
calculate_delivery_date(service_key, ship_date) ==
    add_business_days(ensure_business_day(ship_date),
                      DictGetOr(SERVICE_BUSINESS_DAYS, service_key, 3))

-----------------------------------------------------------------------------
(* The request inputs explored *)

CityTexts == {"", "new york", "los angeles", "portland", "nashville"}

CityNames ==
    {Canon(Str(t, c, p)) : t \in CityTexts, c \in {"title", "lower"}, p \in BOOLEAN}

\* tenths of a kg: below, on and above every limit the code tests
WeightSamples == {-10, 0, 1, 5, 6, 20, 50, 100, 101, 700, 701}

Catalogs == {RealRoutes, EmptyRoutes}

-----------------------------------------------------------------------------
(* The pipeline, one call of generate_shipping_quotes at a time *)

DateIdle ==
    /\ d_pc = "idle"
    /\ d_service_key = ""
    /\ d_ship_date = 0
    /\ d_effective_ship_date = 0
    /\ d_business_days = 0
    /\ d_current_date = 0
    /\ d_days_added = 0
    /\ d_delivery_date = 0

FnIdle ==
    /\ f_quotes = <<>>
    /\ f_weight = 0
    /\ f_out = <<>>
    /\ f_error = ""
    /\ f_pc = "off"

PipeIdle ==
    /\ pc = "idle"
    /\ origin_city = EmptyStr
    /\ destination_city = EmptyStr
    /\ weight_kg = 0
    /\ route_key = None
    /\ route_data = None
    /\ svc_i = 0
    /\ quotes = <<>>
    /\ result = None
    /\ error = ""
    /\ eco_scores = <<>>

\* the locals of a request that has not started
IdleLocals ==
    [pc |-> "idle", origin_city |-> EmptyStr, destination_city |-> EmptyStr,
     weight_kg |-> 0, route_key |-> None, route_data |-> None, svc_i |-> 0,
     quotes |-> <<>>, result |-> None, error |-> "", eco_scores |-> <<>>]

Init ==
    /\ DEMO_ROUTES \in Catalogs
    /\ service_catalog = UPS_SERVICES
    /\ parked = IdleLocals
    /\ PipeIdle
    /\ FnIdle
    /\ DateIdle

\* a caller invokes generate_shipping_quotes(o, d, w)
Request(o, d, w) ==
    /\ pc = "idle"
    /\ pc' = "validate"
    /\ origin_city' = o
    /\ destination_city' = d
    /\ weight_kg' = w
    /\ UNCHANGED <<DEMO_ROUTES, route_key, route_data, svc_i, quotes, result, error>>
    /\ UNCHANGED eco_scores
    /\ UNCHANGED fnVars
    /\ UNCHANGED dateVars
    /\ UNCHANGED <<service_catalog, parked>>

\* self._validate_quote_inputs(...)
Validate ==
    /\ pc = "validate"
    /\ LET msg == _validate_quote_inputs(origin_city, destination_city, weight_kg)
       IN  IF msg = ""
           THEN pc' = "lookup" /\ error' = error
           ELSE pc' = "raised" /\ error' = msg
    /\ UNCHANGED <<DEMO_ROUTES, origin_city, destination_city, weight_kg, route_key,
                   route_data, svc_i, quotes, result>>
    /\ UNCHANGED eco_scores
    /\ UNCHANGED fnVars
    /\ UNCHANGED dateVars
    /\ UNCHANGED <<service_catalog, parked>>

\* route_lookup, and the fallback when it finds nothing
ResolveRoute ==
    /\ pc = "lookup"
    /\ LET found == route_lookup(DEMO_ROUTES, origin_city, destination_city)
           fallback == get_fallback_route_data(DEMO_ROUTES, origin_city, destination_city)
       IN  IF found[2] # None
           THEN /\ route_key' = found[1]
                /\ route_data' = found[2]
                /\ pc' = "services"
                /\ svc_i' = 1
                /\ error' = error
           ELSE IF IsRaise(fallback)
           THEN /\ pc' = "raised"
                /\ error' = fallback.raised
                /\ UNCHANGED <<route_key, route_data, svc_i>>
           ELSE /\ route_key' = FallbackKey(origin_city, destination_city)
                /\ route_data' = fallback
                /\ pc' = "services"
                /\ svc_i' = 1
                /\ error' = error
    /\ DEMO_ROUTES' = routes_after_lookup(DEMO_ROUTES, origin_city, destination_city)
    /\ UNCHANGED <<origin_city, destination_city, weight_kg, quotes, result>>
    /\ UNCHANGED eco_scores
    /\ UNCHANGED fnVars
    /\ UNCHANGED dateVars
    /\ UNCHANGED <<service_catalog, parked>>

\* one iteration of "for service_key, service_data in UPS_SERVICES.items()"
QuoteService ==
    /\ pc = "services"
    /\ svc_i <= Len(service_catalog)
    /\ LET q == ServiceQuote(DEMO_ROUTES, route_key, route_data, weight_kg,
                             service_catalog[svc_i])
       IN  IF ~IsRaise(q)
           THEN quotes' = Append(quotes, q) /\ pc' = pc /\ error' = error
           ELSE IF "name" \in DOMAIN service_catalog[svc_i].data
           THEN UNCHANGED <<quotes, pc, error>>
           \* the except block formats service_data['name'] into its log line
           ELSE quotes' = quotes /\ pc' = "raised" /\ error' = "KeyError"
    /\ svc_i' = svc_i + 1
    /\ UNCHANGED <<DEMO_ROUTES, origin_city, destination_city, weight_kg, route_key,
                   route_data, result>>
    /\ UNCHANGED eco_scores
    /\ UNCHANGED fnVars
    /\ UNCHANGED dateVars
    /\ UNCHANGED <<service_catalog, parked>>

\* after the loop: no quotes raises, else sort, badges, summary and return
Finish ==
    /\ pc = "services"
    /\ svc_i > Len(service_catalog)
    /\ IF quotes = <<>>
       THEN /\ pc' = "raised"
            /\ error' = "No valid quotes could be generated"
            /\ UNCHANGED <<quotes, result>>
       ELSE /\ pc' = "returned"
            /\ quotes' = _add_eco_badges_to_quotes(SortQuotes(quotes))
            /\ result' = Result(quotes', route_key, route_data, origin_city,
                                destination_city, weight_kg)
            /\ error' = error
    /\ UNCHANGED <<DEMO_ROUTES, origin_city, destination_city, weight_kg, route_key,
                   route_data, svc_i>>
    /\ UNCHANGED eco_scores
    /\ UNCHANGED fnVars
    /\ UNCHANGED dateVars
    /\ UNCHANGED <<service_catalog, parked>>

\* the call is over; the generator and its locals are dropped
Return ==
    /\ pc \in {"returned", "scored", "raised"}
    /\ pc' = "idle"
    /\ origin_city' = EmptyStr
    /\ destination_city' = EmptyStr
    /\ weight_kg' = 0
    /\ route_key' = None
    /\ route_data' = None
    /\ svc_i' = 0
    /\ quotes' = <<>>
    /\ result' = None
    /\ error' = ""
    /\ eco_scores' = <<>>
    /\ UNCHANGED DEMO_ROUTES
    /\ UNCHANGED fnVars
    /\ UNCHANGED dateVars
    /\ UNCHANGED <<service_catalog, parked>>

\* main.calculate_shipping after generate_shipping_quotes returned:
\* eco_scorer.calculate_scores(quotes_result["quotes"], weight_kg), of which
\* the tier of every score is kept
Score ==
    /\ pc = "returned"
    /\ calculate_scores_error(result.quotes, weight_kg) = ""
    /\ pc' = "scored"
    /\ eco_scores' = TiersOfScores(result.quotes, weight_kg)
    /\ UNCHANGED <<DEMO_ROUTES, service_catalog, parked, origin_city, destination_city,
                   weight_kg, route_key, route_data, svc_i, quotes, result, error>>
    /\ UNCHANGED fnVars
    /\ UNCHANGED dateVars

\* the locals of the running request
Locals ==
    [pc |-> pc, origin_city |-> origin_city, destination_city |-> destination_city,
     weight_kg |-> weight_kg, route_key |-> route_key, route_data |-> route_data,
     svc_i |-> svc_i, quotes |-> quotes, result |-> result, error |-> error,
     eco_scores |-> eco_scores]

\* a switch under which the two requests append to one list of quotes
SwitchSharingQuotes ==
    /\ parked # Locals
    /\ parked' = Locals
    /\ pc' = parked.pc
    /\ origin_city' = parked.origin_city
    /\ destination_city' = parked.destination_city
    /\ weight_kg' = parked.weight_kg
    /\ route_key' = parked.route_key
    /\ route_data' = parked.route_data
    /\ svc_i' = parked.svc_i
    /\ quotes' = quotes
    /\ result' = parked.result
    /\ error' = parked.error
    /\ eco_scores' = parked.eco_scores
    /\ UNCHANGED <<DEMO_ROUTES, service_catalog>>
    /\ UNCHANGED fnVars
    /\ UNCHANGED dateVars

\* the other request in progress runs on: the locals of the two requests
\* change places, the module-level catalogs are the same for both
Switch ==
    /\ parked # Locals
    /\ parked' = Locals
    /\ pc' = parked.pc
    /\ origin_city' = parked.origin_city
    /\ destination_city' = parked.destination_city
    /\ weight_kg' = parked.weight_kg
    /\ route_key' = parked.route_key
    /\ route_data' = parked.route_data
    /\ svc_i' = parked.svc_i
    /\ quotes' = parked.quotes
    /\ result' = parked.result
    /\ error' = parked.error
    /\ eco_scores' = parked.eco_scores
    /\ UNCHANGED <<DEMO_ROUTES, service_catalog>>
    /\ UNCHANGED fnVars
    /\ UNCHANGED dateVars

Next ==
    \/ \E o \in CityNames, d \in CityNames, w \in WeightSamples : Request(o, d, w)
    \/ Validate
    \/ ResolveRoute
    \/ QuoteService
    \/ Finish
    \/ Return

Spec == Init /\ [][Next]_vars

-----------------------------------------------------------------------------
(* The sort of the quote list on its own: quotes.sort(key=...) applied to   *)
(* lists whose keys tie, which the six distinct eta_hours of UPS_SERVICES   *)
(* never produce                                                            *)

\* a quote of service e with the given eta, cost (cents) and CO2 (grams)
QuoteWith(e, eta, cost, co2) ==
    [Quote(e.key, e.data, cost,
           [total_co2_kg |-> co2, air_transport_co2_kg |-> co2,
            truck_transport_co2_kg |-> 0])
       EXCEPT !.eta_hours = eta]

SortQuoteSamples ==
    {QuoteWith(UPS_SERVICES[6], eta, cost, co2) :
        eta \in {24, 48}, cost \in {1500, 2500}, co2 \in {100, 200, 300}}

SortInputs == UNION {[1..n -> SortQuoteSamples] : n \in 0..MaxSortLen}

InitSort ==
    /\ DEMO_ROUTES = RealRoutes
    /\ service_catalog = UPS_SERVICES
    /\ parked = IdleLocals
    /\ PipeIdle
    /\ f_pc = "sort"
    /\ f_quotes \in SortInputs
    /\ f_weight = 0
    /\ f_out = <<>>
    /\ f_error = ""
    /\ DateIdle

\* quotes.sort(key=lambda q: (eta_hours, total_co2_kg, cost_usd))
SortCall ==
    /\ f_pc = "sort"
    /\ f_out' = SortQuotes(f_quotes)
    /\ f_error' = f_error
    /\ f_pc' = "sorted"
    /\ UNCHANGED <<f_quotes, f_weight, DEMO_ROUTES>>
    /\ UNCHANGED pipeVars
    /\ UNCHANGED dateVars
    /\ UNCHANGED <<service_catalog, parked>>

NextSort == SortCall

SpecSort == InitSort /\ [][NextSort]_vars

-----------------------------------------------------------------------------
(* The scorer on its own: calculate_scores applied to quote lists that hold *)
(* each service at most once, in the order of UPS_SERVICES, as the lists    *)
(* generate_shipping_quotes returns do                                      *)

ScoreCosts == {0, 1, 2}

ScoreCarbons == {0, 1}

\* tenths of a kg; 0 is refused by calculate_scores
ScoreWeights == {0, 5, 20}

\* the i-th smallest element of a set of numbers
Nth(S, i) == CHOOSE x \in S : Cardinality({y \in S : y < x}) = i - 1

\* the quote lists over the services with positions S
ListsOver(S) ==
    LET n == Cardinality(S)
    IN  {[i \in 1..n |->
            QuoteWith(UPS_SERVICES[Nth(S, i)], UPS_SERVICES[Nth(S, i)].data.eta_hours,
                      c[i], e[i])] :
         c \in [1..n -> ScoreCosts], e \in [1..n -> ScoreCarbons]}

ScoreInputs ==
    UNION {ListsOver(S) :
              S \in {T \in SUBSET DOMAIN UPS_SERVICES : Cardinality(T) <= MaxQuotes}}

InitScore ==
    /\ DEMO_ROUTES = RealRoutes
    /\ service_catalog = UPS_SERVICES
    /\ parked = IdleLocals
    /\ PipeIdle
    /\ f_pc = "score"
    /\ f_quotes \in ScoreInputs
    /\ f_weight \in ScoreWeights
    /\ f_out = <<>>
    /\ f_error = ""
    /\ DateIdle

\* eco_scorer.calculate_scores(quotes, weight_kg)
ScoreCall ==
    /\ f_pc = "score"
    /\ f_error' = calculate_scores_error(f_quotes, f_weight)
    /\ f_out' = IF f_error' = "" THEN calculate_scores(f_quotes, f_weight) ELSE <<>>
    /\ f_pc' = "scored"
    /\ UNCHANGED <<f_quotes, f_weight, DEMO_ROUTES>>
    /\ UNCHANGED pipeVars
    /\ UNCHANGED dateVars
    /\ UNCHANGED <<service_catalog, parked>>

NextScore == ScoreCall

SpecScore == InitScore /\ [][NextScore]_vars

-----------------------------------------------------------------------------
(* calculate_scores on quote lists in any order                             *)

\* the quote lists over the services with positions S, in every order
ListsInAnyOrder(S) ==
    LET n == Cardinality(S)
    IN  {[i \in 1..n |->
            QuoteWith(UPS_SERVICES[Nth(S, p[i])],
                      UPS_SERVICES[Nth(S, p[i])].data.eta_hours, c[i], e[i])] :
         c \in [1..n -> ScoreCosts], e \in [1..n -> ScoreCarbons],
         p \in Permutations(1..n)}

InitOrder ==
    /\ DEMO_ROUTES = RealRoutes
    /\ service_catalog = UPS_SERVICES
    /\ parked = IdleLocals
    /\ PipeIdle
    /\ f_pc = "score"
    /\ f_quotes \in UNION {ListsInAnyOrder(S) : S \in {{1, 6}, {2, 3, 4}, {1, 5, 6}}}
    /\ f_weight \in ScoreWeights \ {0}
    /\ f_out = <<>>
    /\ f_error = ""
    /\ DateIdle

SpecOrder == InitOrder /\ [][ScoreCall]_vars

-----------------------------------------------------------------------------
(* calculate_delivery_date on its own, the while loop of add_business_days  *)
(* one iteration at a time                                                  *)

ShipDates == 0..MaxShipDay

\* no date the loop can reach from a ship date lies beyond this day
LastDay == MaxShipDay + 14

DeliveryKeys == {SERVICE_BUSINESS_DAYS[i].key : i \in DOMAIN SERVICE_BUSINESS_DAYS}

InitDelivery ==
    /\ DEMO_ROUTES = RealRoutes
    /\ service_catalog = UPS_SERVICES
    /\ parked = IdleLocals
    /\ PipeIdle
    /\ FnIdle
    /\ DateIdle

\* calculate_delivery_date(service_key, ship_date) is called
DeliveryCall(service_key, ship_date) ==
    /\ d_pc = "idle"
    /\ d_pc' = "ensure"
    /\ d_service_key' = service_key
    /\ d_ship_date' = ship_date
    /\ UNCHANGED <<d_effective_ship_date, d_business_days, d_current_date,
                   d_days_added, d_delivery_date>>
    /\ UNCHANGED <<DEMO_ROUTES, service_catalog, parked, pipeVars, fnVars>>

\* ensure_business_day, the business days of the service, and the entry of
\* add_business_days
EnsureBusinessDay ==
    /\ d_pc = "ensure"
    /\ d_pc' = "count"
    /\ d_effective_ship_date' = ensure_business_day(d_ship_date)
    /\ d_business_days' = DictGetOr(SERVICE_BUSINESS_DAYS, d_service_key, 3)
    /\ d_current_date' = d_effective_ship_date'
    /\ d_days_added' = 0
    /\ UNCHANGED <<d_service_key, d_ship_date, d_delivery_date>>
    /\ UNCHANGED <<DEMO_ROUTES, service_catalog, parked, pipeVars, fnVars>>

\* one iteration of "while days_added < business_days"
AddDayStep ==
    /\ d_pc = "count"
    /\ d_days_added < d_business_days
    /\ d_current_date < LastDay
    /\ d_current_date' = d_current_date + 1
    /\ d_days_added' = days_added_after(d_days_added, d_current_date')
    /\ UNCHANGED <<d_pc, d_service_key, d_ship_date, d_effective_ship_date,
                   d_business_days, d_delivery_date>>
    /\ UNCHANGED <<DEMO_ROUTES, service_catalog, parked, pipeVars, fnVars>>

\* the loop condition fails: return current_date
DeliveryReturn ==
    /\ d_pc = "count"
    /\ ~(d_days_added < d_business_days)
    /\ d_pc' = "done"
    /\ d_delivery_date' = d_current_date
    /\ UNCHANGED <<d_service_key, d_ship_date, d_effective_ship_date,
                   d_business_days, d_current_date, d_days_added>>
    /\ UNCHANGED <<DEMO_ROUTES, service_catalog, parked, pipeVars, fnVars>>

\* the caller has taken the date; the locals are dropped
DeliveryDone ==
    /\ d_pc = "done"
    /\ d_pc' = "idle"
    /\ d_service_key' = ""
    /\ d_ship_date' = 0
    /\ d_effective_ship_date' = 0
    /\ d_business_days' = 0
    /\ d_current_date' = 0
    /\ d_days_added' = 0
    /\ d_delivery_date' = 0
    /\ UNCHANGED <<DEMO_ROUTES, service_catalog, parked, pipeVars, fnVars>>

NextDelivery ==
    \/ \E k \in DeliveryKeys, date \in ShipDates : DeliveryCall(k, date)
    \/ EnsureBusinessDay
    \/ AddDayStep
    \/ DeliveryReturn
    \/ DeliveryDone

SpecDelivery == InitDelivery /\ [][NextDelivery]_vars

-----------------------------------------------------------------------------
(* generate_shipping_quotes over service catalogs with entries that make    *)
(* the cost or the carbon computation raise                                 *)

\* a dict without one of its keys
Without(sd, field) == [f \in DOMAIN sd \ {field} |-> sd[f]]

\* an entry as shipped ("ok"), one calculate_shipping_cost raises KeyError
\* for ("cost"), one _validate_carbon_inputs raises ValueError for ("carbon")
EntryVariant(e, v) ==
    CASE v = "ok" -> e
      [] v = "cost" -> Entry(e.key, Without(e.data, "base_cost_multiplier"))
      [] v = "carbon" -> Entry(e.key, Without(e.data, "air_percentage"))

ServiceCatalogs ==
    {[i \in DOMAIN UPS_SERVICES |-> EntryVariant(UPS_SERVICES[i], v[i])] :
        v \in [DOMAIN UPS_SERVICES -> {"ok", "cost", "carbon"}]}

\* a cataloged lane and a lane that is not cataloged, 5 kg
TierRequests ==
    {<<Str("new york", "title", FALSE), Str("los angeles", "title", FALSE), 50>>,
     <<Str("portland", "title", FALSE), Str("nashville", "title", FALSE), 50>>}

InitTiers ==
    /\ DEMO_ROUTES = RealRoutes
    /\ service_catalog \in ServiceCatalogs
    /\ parked = IdleLocals
    /\ PipeIdle
    /\ FnIdle
    /\ DateIdle

NextTiers ==
    \/ \E r \in TierRequests : Request(r[1], r[2], r[3])
    \/ Validate
    \/ ResolveRoute
    \/ QuoteService
    \/ Finish
    \/ Return

SpecTiers == InitTiers /\ [][NextTiers]_vars

-----------------------------------------------------------------------------
(* Two requests in progress at once, their steps interleaved in every order *)

\* the cataloged lane in both directions, a lane that is not cataloged, a
\* request that is rejected; 5 kg and 0.5 kg
PairRequests ==
    {<<Str("new york", "title", FALSE), Str("los angeles", "title", FALSE), 50>>,
     <<Str("los angeles", "title", FALSE), Str("new york", "title", FALSE), 5>>,
     <<Str("portland", "title", FALSE), Str("nashville", "title", FALSE), 50>>,
     <<Str("new york", "title", FALSE), Str("new york", "lower", FALSE), 50>>}

InitPair ==
    /\ DEMO_ROUTES = RealRoutes
    /\ service_catalog = UPS_SERVICES
    /\ parked = IdleLocals
    /\ PipeIdle
    /\ FnIdle
    /\ DateIdle

NextPair ==
    \/ \E r \in PairRequests : Request(r[1], r[2], r[3])
    \/ Validate
    \/ ResolveRoute
    \/ QuoteService
    \/ Finish
    \/ Score
    \/ Return
    \/ Switch

SpecPair == InitPair /\ [][NextPair]_vars

-----------------------------------------------------------------------------
(* main.calculate_shipping in its own order: the delivery date of a service *)
(* first, then the quotes; a call that has started keeps running            *)

LiveRequests ==
    PairRequests \cup
    {<<Str("portland", "lower", TRUE), Str("nashville", "title", FALSE), 1>>,
     <<Str("new york", "lower", FALSE), Str("los angeles", "lower", FALSE), 700>>,
     <<Str("los angeles", "title", FALSE), Str("nashville", "title", FALSE), 701>>}

InitLive ==
    /\ DEMO_ROUTES = RealRoutes
    /\ service_catalog = UPS_SERVICES
    /\ parked = IdleLocals
    /\ PipeIdle
    /\ FnIdle
    /\ DateIdle

\* the steps of calculate_delivery_date, taken before the quotes are asked for
DeliverySteps ==
    /\ pc = "idle"
    /\ \/ EnsureBusinessDay
       \/ AddDayStep
       \/ DeliveryReturn

\* the steps of generate_shipping_quotes, taken once the date is there
QuoteSteps ==
    /\ d_pc = "done"
    /\ \/ Validate
       \/ ResolveRoute
       \/ QuoteService
       \/ Finish

NextLive ==
    \/ pc = "idle" /\ \E k \in DeliveryKeys, date \in ShipDates : DeliveryCall(k, date)
    \/ DeliverySteps
    \/ d_pc = "done" /\ \E r \in LiveRequests : Request(r[1], r[2], r[3])
    \/ QuoteSteps
    \/ Return
    \/ pc = "idle" /\ DeliveryDone

\* when a step of generate_shipping_quotes can be taken: the call has been made
\* and has neither returned nor raised (every such state satisfies the guard of
\* exactly one of Validate, ResolveRoute, QuoteService and Finish, and each of
\* them changes pc or svc_i)
QuoteStepsEnabled ==
    /\ d_pc = "done"
    /\ pc \in {"validate", "lookup", "services"}

\* weak fairness of QuoteSteps, WF_vars(QuoteSteps), written out with its
\* enabling condition: a call that stays in progress takes its next step
QuoteStepsFair ==
    \/ []<>(~QuoteStepsEnabled)
    \/ []<><<QuoteSteps>>_vars

\* a call in progress is run to its end by the interpreter
SpecLive ==
    /\ InitLive
    /\ [][NextLive]_vars
    /\ WF_vars(DeliverySteps)
    /\ QuoteStepsFair

-----------------------------------------------------------------------------
(* calculate_shipping_cost on its own, applied to the cataloged lanes, the  *)
(* fallback lane and lanes whose distance lies at a zone threshold, which   *)
(* no lane of DEMO_ROUTES does                                              *)

\* air and ground distance of lanes around the two thresholds
ThresholdDistances ==
    {<<900, 999>>, <<900, 1000>>, <<1000, 900>>, <<900, 1001>>,
     <<2500, 2999>>, <<2500, 3000>>, <<3000, 2800>>, <<2500, 3001>>}

CostLanes ==
    {RealRoutes[i].data : i \in DOMAIN RealRoutes}
    \cup {get_fallback_route_data(RealRoutes, Title("portland"), Title("nashville"))}
    \cup {Lane("a", "XX", "b", "XX", ad[1], ad[2], 500, "simple") :
             ad \in ThresholdDistances}

\* tenths of a kg: around every band limit, and beyond the last band, which
\* only a direct caller of the calculator can pass
CostWeights == {1, 4, 5, 6, 19, 20, 21, 50, 99, 100, 101, 699, 700, 701, 1000}

CostInputs ==
    {[route_data |-> rd, service |-> UPS_SERVICES[i]] :
        rd \in CostLanes, i \in DOMAIN UPS_SERVICES}

InitCost ==
    /\ DEMO_ROUTES = RealRoutes
    /\ service_catalog = UPS_SERVICES
    /\ parked = IdleLocals
    /\ PipeIdle
    /\ f_pc = "cost"
    /\ f_quotes \in CostInputs
    /\ f_weight \in CostWeights
    /\ f_out = <<>>
    /\ f_error = ""
    /\ DateIdle

\* cost_calculator.calculate_shipping_cost(route_data, weight_kg, service_data,
\* service_key), with the weight category it looked up
CostCall ==
    /\ f_pc = "cost"
    /\ f_out' = [weight_category |-> get_weight_category_for_weight(f_weight),
                 cost_usd |-> calculate_shipping_cost(f_quotes.route_data, f_weight,
                                 f_quotes.service.data, f_quotes.service.key)]
    /\ f_error' = f_error
    /\ f_pc' = "costed"
    /\ UNCHANGED <<f_quotes, f_weight, DEMO_ROUTES>>
    /\ UNCHANGED pipeVars
    /\ UNCHANGED dateVars
    /\ UNCHANGED <<service_catalog, parked>>

NextCost == CostCall

SpecCost == InitCost /\ [][NextCost]_vars

-----------------------------------------------------------------------------
(* main.calculate_shipping over every lane of the catalog, in both          *)
(* directions, and a pair the catalog does not hold: quotes, then scores    *)

LanePairs ==
    {<<RealRoutes[i].data.origin.city, RealRoutes[i].data.destination.city>> :
        i \in DOMAIN RealRoutes}
    \cup {<<RealRoutes[i].data.destination.city, RealRoutes[i].data.origin.city>> :
        i \in DOMAIN RealRoutes}
    \cup {<<Title("portland"), Title("nashville")>>}

\* tenths of a kg, from the lightest to the heaviest accepted
LaneWeights ==
    {1, 2, 3, 4, 5, 6, 7, 8, 9, 10, 15, 19, 20, 21, 25, 50, 75, 99, 100, 101,
     150, 200, 250, 333, 400, 500, 600, 699, 700}

InitLanes ==
    /\ DEMO_ROUTES = RealRoutes
    /\ service_catalog = UPS_SERVICES
    /\ parked = IdleLocals
    /\ PipeIdle
    /\ FnIdle
    /\ DateIdle

NextLanes ==
    \/ \E r \in LanePairs, w \in LaneWeights : Request(r[1], r[2], w)
    \/ Validate
    \/ ResolveRoute
    \/ QuoteService
    \/ Finish
    \/ Score
    \/ Return

SpecLanes == InitLanes /\ [][NextLanes]_vars

-----------------------------------------------------------------------------
(* Properties of lane resolution and of the quote list *)

\* the messages of the ValueErrors raised by _validate_quote_inputs
ValidationMessages ==
    {"Origin city must be a non-empty string",
     "Destination city must be a non-empty string",
     "Origin and destination cities cannot be the same",
     "Weight must be a positive number",
     "Weight cannot exceed 70kg for standard UPS services"}

\* a call is past its first step
Started == pc \notin {"idle", "validate"}

\* the call was left by a ValueError of the input validation
Rejected == pc = "raised" /\ error \in ValidationMessages

\* two distinct non-empty city names and a weight in (0, 70] kg
ValidRequest ==
    /\ origin_city.text # ""
    /\ destination_city.text # ""
    /\ origin_city.text # destination_city.text
    /\ weight_kg > 0
    /\ weight_kg <= 700

\* the lane of the catalog that joins city a to city b, names compared
\* exactly up to case
Cataloged(a, b) ==
    \E i \in DOMAIN DEMO_ROUTES :
        /\ Lower(DEMO_ROUTES[i].data.origin.city) = Lower(a)
        /\ Lower(DEMO_ROUTES[i].data.destination.city) = Lower(b)

ServiceKeys == {UPS_SERVICES[i].key : i \in DOMAIN UPS_SERVICES}

\* C1: with the lane catalog in place, every request with two distinct
\* non-empty city names and a weight in (0, 70] returns exactly 6 quotes, one
\* per service of UPS_SERVICES, whether its lane is direct, reversed or a
\* fallback: the call never raises, every pass of the loop adds a quote, and
\* the returned list holds each service key once.
C1_SixQuotes ==
    (DEMO_ROUTES # <<>> /\ Started /\ ValidRequest) =>
        /\ pc # "raised"
        /\ pc = "services" => Len(quotes) = svc_i - 1
        /\ pc = "returned" =>
              /\ Len(result.quotes) = 6
              /\ {result.quotes[i].service_key : i \in 1..Len(result.quotes)} = ServiceKeys
              /\ Cardinality(ServiceKeys) = 6

\* a valid request for an uncataloged pair has returned its six quotes
C1_Witness ==
    /\ pc = "returned"
    /\ ValidRequest
    /\ result.route_info.is_fallback
    /\ Len(result.quotes) = 6

\* C2: validation rejects a request, before any lane lookup or service
\* computation and with no partial result, exactly when a city is empty or
\* blank, the cities are equal ignoring case and surrounding blanks, the
\* weight is <= 0 or the weight is > 70 kg; every other request passes.
C2_Validation ==
    LET blank(c) == c.text = ""
        same == origin_city.text = destination_city.text
        reject == \/ blank(origin_city) \/ blank(destination_city)
                  \/ same
                  \/ weight_kg <= 0 \/ weight_kg > 700
    IN  Started =>
            /\ Rejected <=> reject
            /\ Rejected => route_key = None /\ route_data = None
                           /\ quotes = <<>> /\ result = None /\ svc_i = 0

\* a request whose city names differ only in case and surrounding blanks
\* has been rejected as "same city" with nothing computed
C2_Witness ==
    /\ pc = "raised"
    /\ error = "Origin and destination cities cannot be the same"
    /\ origin_city # destination_city
    /\ Lower(origin_city) # Lower(destination_city)
    /\ route_key = None
    /\ quotes = <<>>

\* C2 as stated: the same-city case is "origin equals destination ignoring
\* case", and every request outside the listed cases passes validation.
C2_AsStated ==
    LET blank(c) == c.text = ""
        reject == \/ blank(origin_city) \/ blank(destination_city)
                  \/ Lower(origin_city) = Lower(destination_city)
                  \/ weight_kg <= 0 \/ weight_kg > 700
    IN  Started => (Rejected <=> reject)

\* the numbers of a lane that resolution must not change
LaneFigures(rd) == <<rd.air_distance_km, rd.ground_distance_km, rd.base_cost_per_kg>>

\* C3: for every lane A->B of the catalog, in any capitalisation of the city
\* names, resolving (A, B) and resolving (B, A) return the same lane key and
\* the same air distance, ground distance and base cost per kg, and differ
\* only in that origin and destination are swapped (checked for the whole
\* catalog each time a call has resolved its lane); the lane a call resolved
\* from the catalog is oriented like the request.
C3_Symmetry ==
    /\ (pc = "services" /\ svc_i = 1) =>
       \A i \in DOMAIN DEMO_ROUTES :
         \A f \in {1, 2, 3}, g \in {1, 2, 3} :
            LET Case(c, n) == IF n = 1 THEN c ELSE IF n = 2 THEN Lower(c) ELSE Upper(c)
                lane == DEMO_ROUTES[i].data
                a == Case(lane.origin.city, f)
                b == Case(lane.destination.city, g)
                fwd == route_lookup(DEMO_ROUTES, a, b)
                rev == route_lookup(DEMO_ROUTES, b, a)
            IN  /\ fwd[2] # None
                /\ rev[2] # None
                /\ fwd[1] = rev[1]
                /\ LaneFigures(fwd[2]) = LaneFigures(rev[2])
                /\ rev[2].origin = fwd[2].destination
                /\ rev[2].destination = fwd[2].origin
                /\ rev[2] = [fwd[2] EXCEPT !.origin = fwd[2].destination,
                                           !.destination = fwd[2].origin]
    /\ (pc \in {"services", "returned"} /\ ~route_data.is_fallback) =>
            /\ Lower(route_data.origin.city) = Lower(origin_city)
            /\ Lower(route_data.destination.city) = Lower(destination_city)
            /\ \E i \in DOMAIN DEMO_ROUTES :
                  /\ DEMO_ROUTES[i].key = route_key.name
                  /\ LaneFigures(DEMO_ROUTES[i].data) = LaneFigures(route_data)

\* a call resolved its lane against the direction of the catalog entry
C3_Witness ==
    /\ pc = "services"
    /\ ~route_data.is_fallback
    /\ \E i \in DOMAIN DEMO_ROUTES :
          /\ DEMO_ROUTES[i].key = route_key.name
          /\ DEMO_ROUTES[i].data.origin = route_data.destination
          /\ DEMO_ROUTES[i].data.destination = route_data.origin
          /\ DEMO_ROUTES[i].data.origin # route_data.origin

\* C4: the lane of a call carries is_fallback = TRUE exactly when neither
\* direction of the requested pair is in the catalog; the (air distance,
\* ground distance, base cost per kg) of a fallback lane equals that of no
\* cataloged lane; the flag reaches the returned route_info unchanged.
C4_FallbackFlag ==
    /\ pc \in {"services", "returned"} =>
          /\ route_data.is_fallback <=>
                (/\ ~Cataloged(origin_city, destination_city)
                 /\ ~Cataloged(destination_city, origin_city))
          /\ route_data.is_fallback <=> StartsWithFallback(route_key)
          /\ route_data.is_fallback =>
                \A i \in DOMAIN DEMO_ROUTES :
                    LaneFigures(DEMO_ROUTES[i].data) # LaneFigures(route_data)
    /\ pc = "returned" => result.route_info.is_fallback = route_data.is_fallback

\* a call for a pair the catalog holds in neither direction has its
\* fallback lane
C4_Witness ==
    /\ pc = "services"
    /\ route_data.is_fallback
    /\ svc_i = 1
    /\ ~Cataloged(origin_city, destination_city)
    /\ ~Cataloged(destination_city, origin_city)

\* C5: with a non-empty catalog every validated request obtains a lane, from
\* the catalog or by fallback, and the call raises for rejected input only;
\* with an empty catalog a validated request is aborted by an error, no lane
\* is set and no quote is returned.
C5_LaneResolution ==
    /\ (DEMO_ROUTES # <<>> /\ Started) =>
          /\ pc = "raised" => Rejected
          /\ pc \in {"services", "returned"} => (route_data # None /\ route_key # None)
    /\ (DEMO_ROUTES = <<>> /\ Started) =>
          /\ pc \in {"lookup", "raised"}
          /\ route_key = None /\ route_data = None
          /\ quotes = <<>> /\ result = None
          /\ (pc = "raised" /\ ~Rejected) => error = "ZeroDivisionError"

\* a validated request against the empty catalog has been aborted
C5_Witness ==
    /\ DEMO_ROUTES = <<>>
    /\ pc = "raised"
    /\ ~Rejected
    /\ ValidRequest
    /\ result = None

-----------------------------------------------------------------------------
(* Properties of the sort and of the scorer *)

\* the number of positions of list f that hold x
Occurrences(f, x) == Cardinality({i \in DOMAIN f : f[i] = x})

\* C6: the sorted quote list is the submitted quotes ordered by eta_hours
\* ascending, then total_co2_kg ascending, then cost_usd ascending: along the
\* list eta_hours never decreases, quotes with equal eta_hours are in
\* non-decreasing total_co2_kg, and quotes equal on both are in
\* non-decreasing cost_usd.
C6_Sorted ==
    f_pc = "sorted" =>
        /\ Len(f_out) = Len(f_quotes)
        /\ \A i \in DOMAIN f_quotes :
              Occurrences(f_out, f_quotes[i]) = Occurrences(f_quotes, f_quotes[i])
        /\ \A i \in DOMAIN f_out : \A j \in DOMAIN f_out :
              i < j =>
                 LET a == f_out[i]
                     b == f_out[j]
                     a_co2 == a.carbon_breakdown.total_co2_kg
                     b_co2 == b.carbon_breakdown.total_co2_kg
                 IN  /\ a.eta_hours <= b.eta_hours
                     /\ a.eta_hours = b.eta_hours => a_co2 <= b_co2
                     /\ (a.eta_hours = b.eta_hours /\ a_co2 = b_co2) =>
                            a.cost_usd <= b.cost_usd

\* a list that the sort had to reorder, whose result holds a pair tied on
\* eta_hours and a pair tied on eta_hours and total_co2_kg
C6_Witness ==
    /\ f_pc = "sorted"
    /\ f_out # f_quotes
    /\ Len(f_out) = 3
    /\ f_out[1].eta_hours = f_out[2].eta_hours
    /\ f_out[1].carbon_breakdown.total_co2_kg = f_out[2].carbon_breakdown.total_co2_kg
    /\ f_out[1].cost_usd < f_out[2].cost_usd
    /\ f_out[2].eta_hours = f_out[3].eta_hours
    /\ f_out[2].carbon_breakdown.total_co2_kg < f_out[3].carbon_breakdown.total_co2_kg
    /\ f_out[2].cost_usd > f_out[3].cost_usd

\* the call scored a non-empty list for a positive weight
Scored == f_pc = "scored" /\ f_quotes # <<>> /\ f_weight > 0

\* C7: for a non-empty list of quotes with non-negative cost and carbon and
\* a positive weight, calculate_scores returns one score per quote and every
\* score, before and after rounding to one decimal, lies in [0, 25].
C7_ScoreRange ==
    Scored =>
        /\ f_error = ""
        /\ Len(f_out) = Len(f_quotes)
        /\ \A i \in DOMAIN f_out :
              /\ f_out[i].points >= 0
              /\ f_out[i].points <= 250
              /\ FracLeq(FromInt(0), WeightedScores(f_quotes, f_weight)[i])
              /\ FracLeq(WeightedScores(f_quotes, f_weight)[i], FromInt(25))

\* a scored list in which one quote sits on the upper limit, its adjusted
\* score being above 25, and one on the lower limit
C7_Witness ==
    /\ Scored
    /\ \E i \in DOMAIN f_out :
          /\ f_out[i].points = 250
          /\ f_out[i].cost_effectiveness_score = 100
          /\ f_out[i].environmental_score = 100
          /\ adjustment(f_quotes[i].service_name) > 0
    /\ \E i \in DOMAIN f_out : f_out[i].points = 0

\* C8: every score in [0, 25] carries exactly one of the six tier labels, by
\* the bands [21,25] excellent, [17,20] very_good, [13,16] good, [9,12] fair,
\* [5,8] poor, [0,4] very_poor; no score is left without one of them.
C8_AsStated ==
    Scored =>
        \A i \in DOMAIN f_out :
            f_out[i].tier \in {"excellent", "very_good", "good", "fair", "poor",
                               "very_poor"}

\* the adjustment the statement gives each service, hundredths
StatedAdjustment(service_key) ==
    CASE service_key = "UPS_NEXT_DAY_AIR_EARLY" -> -15
      [] service_key = "UPS_NEXT_DAY_AIR" -> -8
      [] service_key = "UPS_NEXT_DAY_AIR_SAVER" -> 25
      [] service_key = "UPS_2ND_DAY_AIR" -> 28
      [] service_key = "UPS_3_DAY_SELECT" -> 30
      [] service_key = "UPS_GROUND" -> 32

\* C9: the adjustment is fixed per service: Next Day Air Early -15%, Next
\* Day Air -8%, Next Day Air Saver +25%, 2nd Day Air +28%, 3-Day Select
\* +30%, Ground +32%; the score of a quote is 25 * base * (1 + its own
\* adjustment), held within [0, 25], base being 0.7 * cost score + 0.3 *
\* environmental score.
C9_AsStated ==
    Scored =>
        \A i \in DOMAIN f_out :
            LET cost_score == _normalize_cost_scores(CostPerKg(f_quotes, f_weight))[i]
                env_score ==
                    _normalize_environmental_scores(CarbonPerKg(f_quotes, f_weight))[i]
                base == FracAdd(FracMul(cost_score, Frac(70, 100)),
                                FracMul(env_score, Frac(30, 100)))
                stated == FracMul(FracMul(base,
                              Frac(100 + StatedAdjustment(f_quotes[i].service_key), 100)),
                              FromInt(25))
            IN  WeightedScores(f_quotes, f_weight)[i] =
                    FracMax2(FromInt(0), FracMin2(FromInt(25), stated))

\* C10: when every quote has the same cost per kg every cost-effectiveness
\* component is 1.0, when every quote has the same carbon per kg every
\* environmental component is 1.0, and the call returns its scores without a
\* division by zero or any other error.
C10_Degenerate ==
    Scored =>
        LET same_cost == \A i \in DOMAIN f_quotes :
                            f_quotes[i].cost_usd = f_quotes[1].cost_usd
            same_carbon == \A i \in DOMAIN f_quotes :
                              f_quotes[i].carbon_breakdown.total_co2_kg =
                                 f_quotes[1].carbon_breakdown.total_co2_kg
        IN  /\ f_error = ""
            /\ Len(f_out) = Len(f_quotes)
            /\ same_cost => \A i \in DOMAIN f_out :
                               f_out[i].cost_effectiveness_score = 100
            /\ same_carbon => \A i \in DOMAIN f_out :
                                 f_out[i].environmental_score = 100

\* several quotes with one cost and one carbon value have been scored
C10_Witness ==
    /\ Scored
    /\ Len(f_quotes) >= 2
    /\ \A i \in DOMAIN f_quotes :
          /\ f_quotes[i].cost_usd = f_quotes[1].cost_usd
          /\ f_quotes[i].carbon_breakdown.total_co2_kg =
                f_quotes[1].carbon_breakdown.total_co2_kg
    /\ \A i \in DOMAIN f_out :
          /\ f_out[i].cost_effectiveness_score = 100
          /\ f_out[i].environmental_score = 100

-----------------------------------------------------------------------------
(* Properties of the delivery dates *)

\* C11: for every service and every ship date, whatever its day of the
\* week, the delivery date returned falls on Monday to Friday, never on a
\* Saturday or a Sunday.
C11_DeliveryOnBusinessDay ==
    d_pc = "done" =>
        /\ weekday(d_delivery_date) \in {0, 1, 2, 3, 4}
        /\ d_delivery_date > d_ship_date

\* a date has been returned for a package shipped on a Friday, the count
\* having passed over the weekend
C11_Witness ==
    /\ d_pc = "done"
    /\ weekday(d_ship_date) = 4
    /\ d_delivery_date - d_ship_date >= 3

\* the Monday that follows a date
FollowingMonday(date) ==
    CHOOSE m \in (date + 1)..(date + 7) : weekday(m) = 0

\* C12: a ship date on a Saturday or a Sunday is advanced to the Monday
\* that follows it before the count starts, so the delivery date is the one
\* of shipping on that Monday; a Monday-to-Friday ship date is used as it is.
C12_WeekendShipDate ==
    LET weekend == weekday(d_ship_date) \in {5, 6}
    IN  /\ d_pc \in {"count", "done"} =>
              d_effective_ship_date =
                  IF weekend THEN FollowingMonday(d_ship_date) ELSE d_ship_date
        /\ (d_pc = "done" /\ weekend) =>
              d_delivery_date =
                  calculate_delivery_date(d_service_key, FollowingMonday(d_ship_date))
        /\ d_pc = "done" =>
              d_delivery_date = calculate_delivery_date(d_service_key, d_ship_date)

\* a date has been returned for a package shipped on a Saturday
C12_Witness ==
    /\ d_pc = "done"
    /\ weekday(d_ship_date) = 5
    /\ d_effective_ship_date = d_ship_date + 2
    /\ d_delivery_date > d_effective_ship_date

-----------------------------------------------------------------------------
(* Properties of the cost and of the carbon figures *)

\* the accepted sample weights not heavier than w, in the weight band of w
LighterInBand(w) ==
    {w1 \in WeightSamples :
        /\ 0 < w1 /\ w1 <= w
        /\ get_weight_category_for_weight(w1) = get_weight_category_for_weight(w)}

\* C13: for a fixed lane and service the cost does not decrease with the
\* weight inside one weight band (w1 <= w2 in the same band gives
\* cost(w1) <= cost(w2)), and the cost returned is never below the minimum
\* cost of the service.
C13_CostMonotone ==
    pc = "returned" =>
        \A i \in DOMAIN quotes :
            LET q == quotes[i]
                sd == DictGet(UPS_SERVICES, q.service_key)
            IN  /\ q.cost_usd = calculate_shipping_cost(route_data, weight_kg, sd,
                                                        q.service_key)
                /\ q.cost_usd >= DictGet(MINIMUM_COSTS, q.service_key)
                /\ \A w1 \in LighterInBand(weight_kg) :
                      calculate_shipping_cost(route_data, w1, sd, q.service_key)
                          <= q.cost_usd

\* a request returned a quote priced above the minimum of its service
\* while the lighter package of the same band is priced at that minimum
C13_Witness ==
    /\ pc = "returned"
    /\ \E i \in DOMAIN quotes, w1 \in LighterInBand(weight_kg) :
          LET q == quotes[i]
              lighter == calculate_shipping_cost(route_data, w1,
                             DictGet(UPS_SERVICES, q.service_key), q.service_key)
          IN  /\ w1 < weight_kg
              /\ lighter = DictGet(MINIMUM_COSTS, q.service_key)
              /\ lighter < q.cost_usd

-----------------------------------------------------------------------------
(* Properties of the loop over the services *)

\* the cost or the carbon computation of the i-th service raises for the
\* request in progress
TierFails(i) ==
    \/ shipping_cost_error(service_catalog[i].data) # ""
    \/ IsRaise(calculate_carbon_footprint(DEMO_ROUTES, route_key, weight_kg,
                                          service_catalog[i].data))

\* the keys of the services up to the n-th that do not fail, in catalog order
RECURSIVE SurvivingKeys(_)
SurvivingKeys(n) ==
    IF n = 0 THEN <<>>
    ELSE IF TierFails(n) THEN SurvivingKeys(n - 1)
    ELSE Append(SurvivingKeys(n - 1), service_catalog[n].key)

-----------------------------------------------------------------------------
(* The New York -> Los Angeles scenario *)

\* the tiers computed with the product left unformed are those of
\* calculate_scores wherever both are computed
TiersAgree ==
    (f_pc = "scored" /\ f_error = "") =>
        TiersOfScores(f_quotes, f_weight) = [i \in DOMAIN f_out |-> f_out[i].tier]

BandNames == {TIER_RANGES[i].key : i \in DOMAIN TIER_RANGES}

NewYorkToLosAngeles ==
    /\ pc = "returned"
    /\ DEMO_ROUTES = RealRoutes
    /\ origin_city = Str("new york", "title", FALSE)
    /\ destination_city = Str("los angeles", "title", FALSE)
    /\ weight_kg = 50

\* C16 as stated: New York -> Los Angeles at 5.0 kg resolves the cataloged
\* lane (is_fallback false), returns 6 quotes, the cheapest being UPS Ground
\* and the fastest UPS Next Day Air Early, every quote has total_co2_kg > 0
\* and every quote's eco score lies in one of the configured tier bands.
C16_AsStated ==
    NewYorkToLosAngeles =>
        /\ result.route_info.is_fallback = FALSE
        /\ Len(result.quotes) = 6
        /\ result.summary.cheapest_service = <<"UPS", "Ground">>
        /\ result.summary.fastest_service = <<"UPS", "Next", "Day", "Air", "Early">>
        /\ \A i \in DOMAIN result.quotes :
              result.quotes[i].carbon_breakdown.total_co2_kg > 0
        /\ calculate_scores_error(result.quotes, weight_kg) = ""
        /\ \A i \in DOMAIN result.quotes :
              TiersOfScores(result.quotes, weight_kg)[i] \in BandNames

\* what the scenario gives: all but the statement on the bands, and the tiers
ScenarioAsObserved ==
    NewYorkToLosAngeles =>
        /\ result.route_info.is_fallback = FALSE
        /\ Len(result.quotes) = 6
        /\ result.summary.cheapest_service = <<"UPS", "Ground">>
        /\ result.summary.fastest_service = <<"UPS", "Next", "Day", "Air", "Early">>
        /\ \A i \in DOMAIN result.quotes :
              result.quotes[i].carbon_breakdown.total_co2_kg > 0
        /\ TiersOfScores(result.quotes, weight_kg)
              = <<"very_poor", "unranked", "unranked", "very_good", "excellent",
                  "excellent">>

-----------------------------------------------------------------------------
(* Properties of the result *)

\* x is the least (greatest) of the values f takes on the quotes
IsMinOver(x, qs, f(_)) ==
    /\ \E i \in DOMAIN qs : f(qs[i]) = x
    /\ \A i \in DOMAIN qs : x <= f(qs[i])

IsMaxOver(x, qs, f(_)) ==
    /\ \E i \in DOMAIN qs : f(qs[i]) = x
    /\ \A i \in DOMAIN qs : x >= f(qs[i])

\* nm names a quote on which f is least
NamesMinOver(nm, qs, f(_)) ==
    \E i \in DOMAIN qs :
        /\ qs[i].service_name = nm
        /\ \A j \in DOMAIN qs : f(qs[i]) <= f(qs[j])

EtaOf(q) == q.eta_hours

CostOf(q) == q.cost_usd

CarbonOf(q) == q.carbon_breakdown.total_co2_kg

\* C17: the summary agrees with the returned quotes: price_range and
\* carbon_range hold the least and greatest cost_usd and total_co2_kg,
\* fastest_service, cheapest_service and most_eco_friendly name a quote with
\* the least eta_hours, cost_usd and total_co2_kg, and total_quotes is the
\* length of the list.
C17_SummaryConsistent ==
    pc = "returned" =>
        LET qs == result.quotes
            sm == result.summary
        IN  /\ sm.total_quotes = Len(qs)
            /\ IsMinOver(sm.price_range_usd.min, qs, CostOf)
            /\ IsMaxOver(sm.price_range_usd.max, qs, CostOf)
            /\ IsMinOver(sm.carbon_range_kg.min, qs, CarbonOf)
            /\ IsMaxOver(sm.carbon_range_kg.max, qs, CarbonOf)
            /\ NamesMinOver(sm.fastest_service, qs, EtaOf)
            /\ NamesMinOver(sm.cheapest_service, qs, CostOf)
            /\ NamesMinOver(sm.most_eco_friendly, qs, CarbonOf)

\* a result of several but not all services whose cheapest quote is not its
\* fastest one and whose prices differ
C17_Witness ==
    /\ pc = "returned"
    /\ result.summary.total_quotes \in 2..5
    /\ result.summary.cheapest_service # result.summary.fastest_service
    /\ result.summary.price_range_usd.min < result.summary.price_range_usd.max
    /\ result.summary.carbon_range_kg.min < result.summary.carbon_range_kg.max

-----------------------------------------------------------------------------
(* Independence of the requests *)

\* the quotes of the services up to the n-th for a request run on its own
RECURSIVE QuotesAlone(_, _, _, _, _, _)
QuotesAlone(routes, services, rk, rd, w, n) ==
    IF n = 0 THEN <<>>
    ELSE LET q == ServiceQuote(routes, rk, rd, w, services[n])
             before == QuotesAlone(routes, services, rk, rd, w, n - 1)
         IN  IF IsRaise(q) THEN before ELSE Append(before, q)

\* what generate_shipping_quotes(o, d, w) gives for a request run on its own
\* with the catalogs as shipped: its error, or its result
RunAlone(o, d, w) ==
    LET msg == _validate_quote_inputs(o, d, w)
        found == route_lookup(RealRoutes, o, d)
        rk == IF found[2] # None THEN found[1] ELSE FallbackKey(o, d)
        rd == IF found[2] # None THEN found[2]
              ELSE get_fallback_route_data(RealRoutes, o, d)
        qs == QuotesAlone(RealRoutes, UPS_SERVICES, rk, rd, w, Len(UPS_SERVICES))
    IN  IF msg # "" THEN [error |-> msg, result |-> None]
        ELSE IF qs = <<>>
        THEN [error |-> "No valid quotes could be generated", result |-> None]
        ELSE [error |-> "",
              result |-> Result(_add_eco_badges_to_quotes(SortQuotes(qs)), rk, rd, o, d, w)]

\* a request in progress or finished, given by its locals, has what it has
\* when run on its own
AsAlone(l) ==
    LET alone == RunAlone(l.origin_city, l.destination_city, l.weight_kg)
    IN  /\ l.pc \in {"returned", "scored"} =>
              /\ alone.error = ""
              /\ l.result = alone.result
        /\ l.pc = "scored" =>
              l.eco_scores = TiersOfScores(alone.result.quotes, l.weight_kg)
        /\ l.pc = "raised" =>
              /\ l.error = alone.error
              /\ l.result = None

\* C18: whatever requests came before and whatever request is in progress
\* beside it, in whatever order their steps are taken, a request returns the
\* quotes, summary and eco scores (or the error) it returns when run alone;
\* the scores are those of its own quotes.
C18_Independent == AsAlone(Locals) /\ AsAlone(parked)

\* two different requests in progress at once have both been scored
C18_Witness ==
    /\ pc = "scored"
    /\ parked.pc = "scored"
    /\ parked.origin_city # origin_city
    /\ parked.quotes # quotes
    /\ parked.eco_scores # eco_scores

-----------------------------------------------------------------------------
(* The catalogs *)

\* C19: no step of the pipeline changes the catalogs: the lanes and the
\* services stay as they were (the weight bands are a constant here), a
\* lookup in the reverse direction yields a swapped copy and leaves the
\* cataloged lane with its own origin and destination, and a fallback yields
\* a new lane for the requested cities.
C19_CatalogsUnchanged ==
    [][/\ DEMO_ROUTES' = DEMO_ROUTES
       /\ service_catalog' = service_catalog
       /\ (pc = "lookup" /\ pc' = "services") =>
             LET cataloged == RoutesGet(DEMO_ROUTES', route_key')
             IN  IF route_data'.is_fallback
                 THEN /\ cataloged = None
                      /\ route_data'.origin.city = origin_city
                      /\ route_data'.destination.city = destination_city
                 ELSE /\ cataloged = RoutesGet(DEMO_ROUTES, route_key')
                      /\ \/ route_data' = cataloged
                         \/ /\ route_data' = _swap_route_direction(cataloged)
                            /\ Lower(cataloged.origin.city) = Lower(destination_city)
                            /\ Lower(cataloged.destination.city) = Lower(origin_city)
      ]_vars

\* a request holds the swapped copy of a lane found in the reverse direction
\* and the catalog holds the lane as shipped
C19_Witness ==
    /\ pc = "services"
    /\ ~route_data.is_fallback
    /\ RoutesGet(DEMO_ROUTES, route_key) # route_data
    /\ RoutesGet(DEMO_ROUTES, route_key) = RoutesGet(RealRoutes, route_key)
    /\ RoutesGet(DEMO_ROUTES, route_key).origin = route_data.destination
    /\ RoutesGet(DEMO_ROUTES, route_key).destination = route_data.origin

-----------------------------------------------------------------------------
(* Termination *)

\* the loop of add_business_days has taken no more day steps than a count
\* of business_days can need: two weekend days beside the business days
DayStepsBounded ==
    d_pc \in {"count", "done"} =>
        /\ d_days_added <= d_business_days
        /\ d_current_date - d_effective_ship_date <= d_days_added + 2
        /\ d_current_date < LastDay

\* the loop over the services is at a service of the catalog, or just past
\* the last one, and has made one pass per service behind it
EachTierOnce ==
    pc \in {"services", "returned"} =>
        /\ svc_i \in 1..(Len(service_catalog) + 1)
        /\ pc = "returned" => svc_i = Len(service_catalog) + 1
        /\ pc = "services" => Len(quotes) = svc_i - 1

\* C20: every request with valid input terminates: the loop over the
\* services makes one pass per service and the call returns, and the loop of
\* add_business_days ends after finitely many day steps, for every ship
\* date and every service's count of business days.
C20_Terminates ==
    /\ [](DayStepsBounded /\ EachTierOnce)
    /\ [][pc = "services" /\ pc' = "services" => svc_i' = svc_i + 1]_vars
    /\ (d_pc = "ensure") ~> (d_pc = "done")
    /\ (pc = "validate"
         /\ _validate_quote_inputs(origin_city, destination_city, weight_kg) = "")
          ~> (pc = "returned")

\* a request has returned after six passes of its loop, with a delivery date
\* counted over a weekend
C20_Witness ==
    /\ pc = "returned"
    /\ svc_i = 7
    /\ Len(quotes) = 6
    /\ d_pc = "done"
    /\ d_business_days = 3
    /\ d_delivery_date - d_effective_ship_date = 5

-----------------------------------------------------------------------------
(* The price formula and the weight bands *)

\* the band of a weight as stated: limits 0.5, 2, 10 and 70 kg, inclusive,
\* the first that holds the weight, the top band beyond them
StatedBand(w) ==
    IF w <= 5 THEN "envelope"
    ELSE IF w <= 20 THEN "small"
    ELSE IF w <= 100 THEN "medium"
    ELSE "large"

\* the distance multiplier as stated, tenths
StatedDistanceMultiplier(distance) ==
    IF distance < 1000 THEN 8 ELSE IF distance > 3000 THEN 13 ELSE 10

\* the stated product, in cents over CostDen: the constant factors first,
\* then weight and base cost per kg
StatedProduct(rd, w, e) ==
    LET distance == Max2(rd.air_distance_km, rd.ground_distance_km)
        factors == e.data.base_cost_multiplier
                     * StatedDistanceMultiplier(distance)
                     * DictGet(WEIGHT_CATEGORIES, StatedBand(w)).cost_adjustment
                     * 9
                     * DictGet(PREMIUM_MULTIPLIERS, e.key)
    IN  MulQ(MulQ(MulQ(<<0, 1>>, factors, CostDen), rd.base_cost_per_kg, CostDen),
             w, CostDen)

\* p is x rounded to a whole number (either neighbour at an exact half)
IsRounded(p, x, D) ==
    \/ p = x[1] /\ 2 * x[2] <= D
    \/ p = x[1] + 1 /\ 2 * x[2] >= D

\* C21: for every lane, service and weight the price is max(weight * base
\* cost per kg * service multiplier * distance multiplier * band adjustment
\* * 1.125 * premium multiplier, minimum of the service) rounded to cents,
\* with distance = max(air, ground) and the distance multiplier 0.8 below
\* 1000 km, 1.3 above 3000 km, 1.0 otherwise, the two thresholds included.
C21_PriceFormula ==
    f_pc = "costed" /\ f_weight <= MAX_WEIGHT =>
        LET product == StatedProduct(f_quotes.route_data, f_weight, f_quotes.service)
            floor == DictGet(MINIMUM_COSTS, f_quotes.service.key)
        IN  IF product[1] < floor
            THEN f_out.cost_usd = floor
            ELSE IsRounded(f_out.cost_usd, product, CostDen)

\* a lane of exactly 3000 km priced above its minimum at the multiplier 1.0,
\* and not at 1.3
C21_Witness ==
    /\ f_pc = "costed"
    /\ f_weight = 699
    /\ f_quotes.route_data.air_distance_km = 3000
    /\ f_quotes.route_data.ground_distance_km = 2800
    /\ f_quotes.service.key = "UPS_GROUND"
    /\ f_out.cost_usd > DictGet(MINIMUM_COSTS, "UPS_GROUND")
    /\ f_out.cost_usd = 40105

\* C22: the band of a weight is the first, in ascending order of the limits
\* 0.5, 2, 10 and 70 kg, whose limit is at least the weight, so a weight on
\* a limit belongs to the lower band; a weight beyond every limit gets the
\* top band.
C22_WeightBand ==
    f_pc = "costed" =>
        /\ f_out.weight_category = StatedBand(f_weight)
        /\ \A i \in 1..(Len(WEIGHT_CATEGORIES) - 1) :
              WEIGHT_CATEGORIES[i].data.max_weight_kg
                  < WEIGHT_CATEGORIES[i + 1].data.max_weight_kg
        /\ f_weight > WEIGHT_CATEGORIES[Len(WEIGHT_CATEGORIES)].data.max_weight_kg
              => f_out.weight_category = WEIGHT_CATEGORIES[Len(WEIGHT_CATEGORIES)].key

\* a weight of exactly 2 kg was put in the band that ends at 2 kg
C22_Witness ==
    /\ f_pc = "costed"
    /\ f_weight = 20
    /\ f_out.weight_category = "small"

-----------------------------------------------------------------------------
(* The two legs of the carbon breakdown *)

\* the efficiency multiplier of a service as stated, hundredths
StatedEfficiency(service_key) ==
    IF service_key = "UPS_GROUND" THEN 85
    ELSE IF service_key \in {"UPS_NEXT_DAY_AIR_EARLY", "UPS_NEXT_DAY_AIR",
                             "UPS_NEXT_DAY_AIR_SAVER"} THEN 110
    ELSE 100

\* distance (total / n km) * share (percent) * weight (tenths of a kg) in
\* tonne-km, times a factor (hundredths of a kg per tonne-km) and a
\* multiplier (hundredths): grams over CarbonBase * n
StatedLeg(total, n, share, w, factor, multiplier) ==
    MulQ(MulQ(MulQ(MulQ(<<0, 1>>, factor * multiplier, CarbonBase * n),
                   share, CarbonBase * n), w, CarbonBase * n), total, CarbonBase * n)

\* the distances of the lane of the finished request: the lane's own, or for
\* a fallback the catalog means, as total and count
LegDistance(field) ==
    IF result.route_info.is_fallback
    THEN [total |-> SumSeq([i \in 1..Len(DEMO_ROUTES) |-> DEMO_ROUTES[i].data[field]]),
          n |-> Len(DEMO_ROUTES)]
    ELSE [total |-> route_data[field], n |-> 1]

\* C23: the efficiency multiplier of the service class is applied to the
\* ground leg only: ground CO2 = ground tonne-km * 0.150 * m, with m = 0.85
\* for Ground, 1.10 for the three next-day services and 1.0 for 2nd Day Air
\* and 3-Day Select; air CO2 = air tonne-km * 0.570 for every service.
C23_EfficiencyOnGroundLeg ==
    pc = "returned" =>
        \A i \in DOMAIN result.quotes :
            LET q == result.quotes[i]
                sd == DictGet(UPS_SERVICES, q.service_key)
                air == LegDistance("air_distance_km")
                ground == LegDistance("ground_distance_km")
            IN  /\ IsRounded(q.carbon_breakdown.air_transport_co2_kg,
                             StatedLeg(air.total, air.n, sd.air_percentage,
                                       weight_kg, 57, 100),
                             CarbonBase * air.n)
                /\ IsRounded(q.carbon_breakdown.truck_transport_co2_kg,
                             StatedLeg(ground.total, ground.n, sd.truck_percentage,
                                       weight_kg, 15, StatedEfficiency(q.service_key)),
                             CarbonBase * ground.n)

\* New York to Los Angeles, 5 kg: Ground at 0.85, Next Day Air Early at
\* 1.10 and 2nd Day Air at 1.0 on the ground leg
C23_Witness ==
    /\ pc = "returned"
    /\ weight_kg = 50
    /\ route_key = CatalogKey("NYC_LA")
    /\ Len(result.quotes) = 6
    /\ result.quotes[1].carbon_breakdown.air_transport_co2_kg = 10678
    /\ result.quotes[1].carbon_breakdown.truck_transport_co2_kg = 186
    /\ result.quotes[4].carbon_breakdown.truck_transport_co2_kg = 844
    /\ result.quotes[6].carbon_breakdown.air_transport_co2_kg = 562
    /\ result.quotes[6].carbon_breakdown.truck_transport_co2_kg = 2726

-----------------------------------------------------------------------------
(* Min-max normalisation and the base score *)

\* (max - x) / (max - min) of the i-th of a list of numbers as numerator and
\* denominator, 1 when the list is constant; per-kg values are the numbers
\* divided by one positive weight, which cancels
StatedComponent(values, i) ==
    IF MaxOf(values) = MinOf(values) THEN <<1, 1>>
    ELSE <<MaxOf(values) - values[i], MaxOf(values) - MinOf(values)>>

\* p is num / den rounded to a whole number (either neighbour at an exact half)
IsRoundedRatio(p, num, den) ==
    /\ 2 * (p * den - num) <= den
    /\ 2 * (num - p * den) <= den

\* 25 * (1 + adjustment) * (0.70 * c + 0.30 * e), in tenths of a point, as
\* numerator and denominator, for c and e given as such pairs
StatedPoints(c, e, adj) ==
    <<(100 + adj) * (cost_effectiveness * c[1] * e[2] + environmental_impact * e[1] * c[2]),
      40 * c[2] * e[2]>>

\* C24: min-max normalisation within one list of quotes: when the metric is
\* not constant a quote's component score is (max - x) / (max - min), lies
\* in [0, 1], is 1 for a quote with the least value and 0 for one with the
\* greatest, and is never higher for a quote with a higher cost (or carbon)
\* per kg; the base score is 0.70 * cost score + 0.30 * carbon score.
C24_MinMaxNormalization ==
    Scored =>
        LET costs == Costs(f_quotes)
            carbons == CarbonValues(f_quotes)
            normalized(values, scores) ==
                MaxOf(values) # MinOf(values) =>
                    \A i \in DOMAIN f_out :
                        /\ IsRoundedRatio(scores[i], 100 * StatedComponent(values, i)[1],
                                          StatedComponent(values, i)[2])
                        /\ scores[i] >= 0 /\ scores[i] <= 100
                        /\ values[i] = MinOf(values) => scores[i] = 100
                        /\ values[i] = MaxOf(values) => scores[i] = 0
                        /\ \A j \in DOMAIN f_out :
                              values[i] > values[j] => scores[i] <= scores[j]
        IN  /\ normalized(costs, [i \in DOMAIN f_out |-> f_out[i].cost_effectiveness_score])
            /\ normalized(carbons, [i \in DOMAIN f_out |-> f_out[i].environmental_score])
            /\ \A i \in DOMAIN f_out :
                  LET stated == StatedPoints(StatedComponent(costs, i),
                                             StatedComponent(carbons, i),
                                             adjustment(f_quotes[i].service_name))
                  IN  IF stated[1] >= 250 * stated[2] THEN f_out[i].points = 250
                      ELSE IF stated[1] <= 0 THEN f_out[i].points = 0
                      ELSE IsRoundedRatio(f_out[i].points, stated[1], stated[2])

\* three quotes of costs 0, 1 and 2 scored 1, 0.5 and 0 for cost, with two
\* different carbon values among them
C24_Witness ==
    /\ Scored
    /\ Len(f_out) = 3
    /\ \A i \in 1..3 : f_quotes[i].cost_usd = i - 1
    /\ f_out[1].cost_effectiveness_score = 100
    /\ f_out[2].cost_effectiveness_score = 50
    /\ f_out[3].cost_effectiveness_score = 0
    /\ f_out[1].environmental_score = 0
    /\ f_out[3].environmental_score = 100
    /\ f_out[2].points > 0 /\ f_out[2].points < 250

-----------------------------------------------------------------------------
(* The delivery date as a count of business days *)

\* the count of business days of a service as stated
StatedBusinessDays(service_key) ==
    IF service_key \in {"UPS_NEXT_DAY_AIR_EARLY", "UPS_NEXT_DAY_AIR",
                        "UPS_NEXT_DAY_AIR_SAVER"} THEN 1
    ELSE IF service_key = "UPS_2ND_DAY_AIR" THEN 2
    ELSE 3

\* the Monday-to-Friday days after a and up to b
BusinessDaysAfter(a, b) == {day \in (a + 1)..b : day % 7 \in 0..4}

\* C25: the delivery date of a service is the N-th business day strictly
\* after the effective ship date, N = 1 for the three next-day services, 2
\* for 2nd Day Air, 3 for 3-Day Select and Ground; weekend days between are
\* passed over and not counted (a Friday with N = 1 delivers the following
\* Monday).
C25_NthBusinessDay ==
    d_pc = "done" =>
        /\ d_business_days = StatedBusinessDays(d_service_key)
        /\ d_delivery_date \in BusinessDaysAfter(d_effective_ship_date, d_delivery_date)
        /\ Cardinality(BusinessDaysAfter(d_effective_ship_date, d_delivery_date))
              = StatedBusinessDays(d_service_key)
        /\ (d_effective_ship_date % 7 = 4 /\ StatedBusinessDays(d_service_key) = 1)
              => d_delivery_date = d_effective_ship_date + 3

\* Ground shipped on a Thursday is delivered on the Tuesday after the
\* weekend: Friday, Monday and Tuesday are counted, the two days between
\* are not
C25_Witness ==
    /\ d_pc = "done"
    /\ d_service_key = "UPS_GROUND"
    /\ d_ship_date = 3
    /\ d_effective_ship_date = 3
    /\ d_delivery_date = 8

-----------------------------------------------------------------------------
(* The fallback lane *)

\* the sum of a field over the lanes of the catalog
CatalogTotal(field) ==
    SumSeq([i \in 1..Len(DEMO_ROUTES) |-> DEMO_ROUTES[i].data[field]])

\* the request runs on a fallback lane
OnFallbackLane == pc \in {"services", "returned"} /\ route_data.is_fallback

\* C26 as amended: the air distance and ground distance of a fallback lane
\* are the arithmetic means of those fields over all catalog lanes rounded
\* to whole kilometres, its base cost per kg is the mean rounded to cents,
\* its complexity is "moderate", and its origin and destination are the
\* requested city names.
C26_FallbackRoundedMeans ==
    OnFallbackLane =>
        /\ \A field \in {"air_distance_km", "ground_distance_km", "base_cost_per_kg"} :
              IsRoundedRatio(route_data[field], CatalogTotal(field), Len(DEMO_ROUTES))
        /\ route_data.route_complexity = "moderate"
        /\ route_data.origin.city = origin_city
        /\ route_data.destination.city = destination_city

\* a fallback lane for Portland to Nashville over the shipped catalog: 2552
\* km by air for a mean of 2551.67, 3001 km by ground for a mean of 3001.47
C26_Witness ==
    /\ OnFallbackLane
    /\ origin_city = Title("portland")
    /\ destination_city = Title("nashville")
    /\ route_data.air_distance_km = 2552
    /\ route_data.ground_distance_km = 3001
    /\ route_data.base_cost_per_kg = 700
    /\ CatalogTotal("air_distance_km") = 38275
    /\ CatalogTotal("ground_distance_km") = 45022

\* C26 as stated: the air distance, ground distance and base cost per kg of
\* a fallback lane are the arithmetic means of those fields over all catalog
\* lanes, its complexity is "moderate", and its origin and destination are
\* the requested city names.
C26_AsStated ==
    OnFallbackLane =>
        /\ \A field \in {"air_distance_km", "ground_distance_km", "base_cost_per_kg"} :
              route_data[field] * Len(DEMO_ROUTES) = CatalogTotal(field)
        /\ route_data.route_complexity = "moderate"
        /\ route_data.origin.city = origin_city
        /\ route_data.destination.city = destination_city

-----------------------------------------------------------------------------
(* One lane for every engine *)

\* C27: within one request every engine works on the same lane: the air and
\* ground distances from which each quote's carbon breakdown is computed are
\* the ones its cost is computed from and route_info reports, for direct,
\* reversed and fallback lanes alike.
C27_AsStated ==
    pc = "returned" =>
        /\ result.route_info.air_distance_km = route_data.air_distance_km
        /\ result.route_info.ground_distance_km = route_data.ground_distance_km
        /\ \A i \in DOMAIN result.quotes :
              LET q == result.quotes[i]
                  sd == DictGet(UPS_SERVICES, q.service_key)
              IN  /\ q.cost_usd = calculate_shipping_cost(route_data, weight_kg, sd,
                                                          q.service_key)
                  /\ IsRounded(q.carbon_breakdown.air_transport_co2_kg,
                               StatedLeg(result.route_info.air_distance_km, 1,
                                         sd.air_percentage, weight_kg, 57, 100),
                               CarbonBase)
                  /\ IsRounded(q.carbon_breakdown.truck_transport_co2_kg,
                               StatedLeg(result.route_info.ground_distance_km, 1,
                                         sd.truck_percentage, weight_kg, 15,
                                         StatedEfficiency(q.service_key)),
                               CarbonBase)

\* the same statement for the lanes found in the catalog, in either direction
CatalogedLanesAgree ==
    (pc = "returned" /\ ~result.route_info.is_fallback) => C27_AsStated

-----------------------------------------------------------------------------
(* The two ends of the score *)

\* the position of a service in a list of quotes
PositionOf(qs, service_key) == CHOOSE i \in DOMAIN qs : qs[i].service_key = service_key

\* the points calculate_scores gives the i-th quote, in tenths
PointsOf(qs, weight, i) == FracRound(WeightedScores(qs, weight)[i], 10)

\* C28: for every cataloged or fallback lane and every weight from 0.1 kg to
\* 70 kg the UPS Next Day Air Early quote has the highest cost and the
\* highest carbon of the set and receives the score 0, and the UPS Ground
\* quote has the lowest cost and the lowest carbon and receives the score
\* 25, its boost being cut off at the upper limit.
C28_EndsOfTheScore ==
    pc = "scored" =>
        LET qs == result.quotes
            early == PositionOf(qs, "UPS_NEXT_DAY_AIR_EARLY")
            ground == PositionOf(qs, "UPS_GROUND")
            cost_scores == _normalize_cost_scores(CostPerKg(qs, weight_kg))
            environmental_scores ==
                _normalize_environmental_scores(CarbonPerKg(qs, weight_kg))
        IN  /\ Len(qs) = 6
            /\ qs[early].cost_usd = MaxOf(Costs(qs))
            /\ qs[early].carbon_breakdown.total_co2_kg = MaxOf(CarbonValues(qs))
            /\ qs[ground].cost_usd = MinOf(Costs(qs))
            /\ qs[ground].carbon_breakdown.total_co2_kg = MinOf(CarbonValues(qs))
            /\ PointsOf(qs, weight_kg, early) = 0
            /\ eco_scores[early] = "very_poor"
            /\ PointsOf(qs, weight_kg, ground) = 250
            /\ eco_scores[ground] = "excellent"
            /\ cost_scores[ground] = FromInt(1)
            /\ environmental_scores[ground] = FromInt(1)
            /\ adjustment(qs[ground].service_name) > 0

\* a fallback lane at 0.1 kg, every service at its minimum cost, scored at
\* both ends
C28_Witness ==
    /\ pc = "scored"
    /\ weight_kg = 1
    /\ route_data.is_fallback
    /\ \A i \in DOMAIN result.quotes :
          result.quotes[i].cost_usd = DictGet(MINIMUM_COSTS, result.quotes[i].service_key)
    /\ eco_scores[1] = "very_poor"
    /\ eco_scores[6] = "excellent"

-----------------------------------------------------------------------------
(* The scores and the order of the quotes *)

\* the list qs with its entries taken in the order p
Permuted(qs, p) == [i \in DOMAIN qs |-> qs[p[i]]]

\* C29: calculate_scores does not depend on the order of its input: it returns
\* one score per quote, the i-th score being that of the i-th quote; scoring
\* the quotes in any other order gives the same scores in that other order;
\* and scoring the sorted list gives every service the points and the tier it
\* gets when the unsorted list is scored
C29_OrderIndependent ==
    (f_pc = "scored" /\ f_error = "") =>
        /\ DOMAIN f_out = DOMAIN f_quotes
        /\ \A i \in DOMAIN f_quotes :
              /\ f_out[i].cost_per_kg = Frac(f_quotes[i].cost_usd * 10, f_weight)
              /\ f_out[i].carbon_per_kg =
                     Frac(f_quotes[i].carbon_breakdown.total_co2_kg * 10, f_weight)
        /\ \A p \in Permutations(DOMAIN f_quotes) :
              /\ calculate_scores_error(Permuted(f_quotes, p), f_weight) = ""
              /\ calculate_scores(Permuted(f_quotes, p), f_weight) = Permuted(f_out, p)
        /\ LET sorted == SortQuotes(f_quotes)
               after == calculate_scores(sorted, f_weight)
           IN  \A i \in DOMAIN f_quotes, j \in DOMAIN sorted :
                   sorted[j].service_key = f_quotes[i].service_key =>
                       /\ after[j].points = f_out[i].points
                       /\ after[j].tier = f_out[i].tier

\* three quotes scored with Ground first and Next Day Air Early last, the
\* reverse of the sorted order, Ground the cheapest and cleanest
C29_Witness ==
    /\ f_pc = "scored"
    /\ f_error = ""
    /\ Len(f_quotes) = 3
    /\ f_quotes[1].service_key = "UPS_GROUND"
    /\ f_quotes[3].service_key = "UPS_NEXT_DAY_AIR_EARLY"
    /\ SortQuotes(f_quotes) = Permuted(f_quotes, [i \in 1..3 |-> 4 - i])
    /\ f_quotes[1].cost_usd = 0
    /\ f_quotes[3].cost_usd = 2
    /\ f_out[1].points = 250
    /\ f_out[3].points = 0

\* C30: a request that yields all six quotes returns them in the order of the
\* catalog, Next Day Air Early, Next Day Air, Next Day Air Saver, 2nd Day Air,
\* 3-Day Select, Ground, with priority levels 1 to 6; the transit times of the
\* six tiers are pairwise distinct and strictly increasing along the returned
\* list, so that the footprint and the cost never decide the order
C30_PriorityOrder ==
    (pc \in {"returned", "scored"} /\ Len(result.quotes) = 6) =>
        /\ [i \in 1..6 |-> result.quotes[i].service_key] =
              <<"UPS_NEXT_DAY_AIR_EARLY", "UPS_NEXT_DAY_AIR", "UPS_NEXT_DAY_AIR_SAVER",
                "UPS_2ND_DAY_AIR", "UPS_3_DAY_SELECT", "UPS_GROUND">>
        /\ \A i \in 1..6 : result.quotes[i].priority_level = i
        /\ \A i, j \in DOMAIN service_catalog :
              i # j => service_catalog[i].data.eta_hours # service_catalog[j].data.eta_hours
        /\ \A i \in 1..5 : result.quotes[i].eta_hours < result.quotes[i + 1].eta_hours

\* 70 kg from Los Angeles to New York, a lane found reversed: six quotes
\* returned with Next Day Air Early first and Ground last, although the
\* footprint and the cost of the first are the largest
C30_Witness ==
    /\ pc = "returned"
    /\ origin_city = Title("los angeles")
    /\ destination_city = Title("new york")
    /\ weight_kg = 700
    /\ Len(result.quotes) = 6
    /\ result.quotes[1].service_key = "UPS_NEXT_DAY_AIR_EARLY"
    /\ result.quotes[6].service_key = "UPS_GROUND"
    /\ result.quotes[1].carbon_breakdown.total_co2_kg
          > result.quotes[6].carbon_breakdown.total_co2_kg
    /\ result.quotes[1].cost_usd > result.quotes[6].cost_usd

====
